---- MODULE Spec2Model ----
(***************************************************************************)
(* A model of the batch loader of the NYC taxi toll analysis toolkit:      *)
(* Parquet_Loader.tlc_filtered_batches, a Python generator that opens a    *)
(* columnar trip file, reads it in physical batches, unifies the column    *)
(* names of the two fleets, applies three data-quality filters and yields  *)
(* every batch that is left non-empty.                                     *)
(*                                                                         *)
(* A data frame is the record                                              *)
(*   [err, columns, index, rows]                                           *)
(* columns: the column labels in order (labels may repeat after a rename), *)
(* index:   the row labels (batch.to_pandas() numbers each batch from 0),  *)
(* rows:    one tuple of cell values per row, aligned with columns,        *)
(* err:     "" or the kind of the exception raised while computing it.     *)
(*                                                                         *)
(* Timestamps are whole seconds.  trip_distance is held in tenths of a     *)
(* mile so that sub-mile trips exist; fares are whole dollars.             *)
(***************************************************************************)
EXTENDS Integers, Sequences, FiniteSets, TLC

VARIABLES
    file,        \* the source file: [schema: column names, trips: the rows]
    pc,          \* where the generator stands
    total_rows,  \* pq_file.metadata.num_rows (line 42)
    batch_size,  \* line 43, a rational <<numerator, denominator>>
    offset,      \* rows the batch iterator has read so far
    physical,    \* history: the slices [lo, hi] of the file read so far
    normalized,  \* the frame of the last physical batch after line 52
    df,          \* the frame of the last physical batch after line 63
    emitted,     \* history: what the consumer received, [lo, df] each
    error,       \* kind of the exception that ended the load, "" if none
    path,        \* what file_path names: a readable file, nothing, no parquet
    handle,      \* the file handle pq_file holds: "none", "open", "released"
    requests,    \* history: how often the consumer asked for a batch
    zone_lookup, \* the rows of taxi_zone_lookup.csv
    zone_pc,     \* where get_congestion_zone_ids stands
    zone_read,   \* rows of the lookup table read so far
    congestion_ids, \* the set get_congestion_zone_ids builds
    loads,       \* two loads side by side: the local variables of each call
    downloader,  \* TLCDownloader: base_download_dir, use_scrape_fallback
    web,         \* the TLC page's hrefs and the clock of datetime.now()
    call,        \* the arguments of download_year: year, months
    dl_pc,       \* where download_year and download_file stand
    parquet_links,  \* the URLs download_year goes through (lines 127-135)
    link_i,      \* the place in parquet_links of the URL in hand
    local_files, \* the files on disk: path -> "partial" or "complete"
    http_log,    \* history: the requests of the download_file call in hand
    result,      \* what the last download_file call returned
    existed,     \* history: the file of the last call was there at its start
    downloaded,  \* the list download_year returns (lines 139-146)
    calls,       \* history: how often download_year was called
    q1_in,       \* calculate_q1_entering_volumes: the folder's file names, year
    q1_pc,       \* where calculate_q1_entering_volumes stands
    q1_files,    \* the list get_q1_parquet_files returned
    q1_i,        \* the place in q1_files of the file in hand
    q1_b,        \* batches of the file in hand taken so far
    counts,      \* counts (line 58), with "total" once line 92 has run
    total,       \* total (line 59)
    audit_in,    \* run_leakage_audit: the names in parquet_folder, the zone ids
    audit_pc,    \* where run_leakage_audit stands
    parquet_files,  \* lines 28-34
    file_idx,    \* files taken from parquet_files so far
    batch_idx,   \* batches of the file in hand taken so far
    total_should_pay,   \* line 21
    total_paid,         \* line 22
    missing_by_pickup,  \* line 24: pickup location -> count
    total_by_pickup,    \* line 25: pickup location -> count
    audit_result,  \* what run_leakage_audit returned
    tip_in,      \* aggregate_2025_folder: the names in tlc_2025_folder, the zone ids
    tip_pc,      \* where aggregate_2025_folder stands
    tip_files,   \* parquet_files (line 113)
    tip_i,       \* files taken so far
    tip_b,       \* batches of the file in hand taken so far
    monthly_rows,  \* process_parquet_file_2025 (line 48)
    results,     \* aggregate_2025_folder (line 111)
    tip_result,  \* what aggregate_2025_folder returned
    tip_seen,    \* month -> qualifying trips in the batches the loader has yielded
    imp_file,    \* load_month: the file at path
    imp_pc,      \* where load_month and restore_schema stand
    imp_offset,  \* rows of the file the loader has read
    dfs,         \* load_month (line 60)
    loaded,      \* what load_month returned
    restored,    \* what restore_schema returned
    imp_error    \* the exception that ended load_month, "" if none

loaderVars == <<file, pc, total_rows, batch_size, offset, physical, normalized,
                df, emitted, error, path, handle, requests>>

zoneVars == <<zone_lookup, zone_pc, zone_read, congestion_ids>>

\* What the loader leaves alone.
crawlerVars == <<downloader, web, call, dl_pc, parquet_links, link_i,
                 local_files, http_log, result, existed, downloaded, calls>>

\* The acquisition and analysis modules' state.
q1Vars == <<q1_in, q1_pc, q1_files, q1_i, q1_b, counts, total>>

auditVars == <<audit_in, audit_pc, parquet_files, file_idx, batch_idx,
               total_should_pay, total_paid, missing_by_pickup, total_by_pickup,
               audit_result>>

tipVars == <<tip_in, tip_pc, tip_files, tip_i, tip_b, monthly_rows, results,
             tip_result, tip_seen>>

imputeVars == <<imp_file, imp_pc, imp_offset, dfs, loaded, restored, imp_error>>

analysisVars == <<crawlerVars, q1Vars, auditVars, tipVars, imputeVars>>

\* What each of these modules leaves alone.
crawlerRest == <<loaderVars, zoneVars, loads, q1Vars, auditVars, tipVars, imputeVars>>
q1Rest == <<loaderVars, zoneVars, loads, crawlerVars, auditVars, tipVars, imputeVars>>
auditRest == <<loaderVars, zoneVars, loads, crawlerVars, q1Vars, tipVars, imputeVars>>
tipRest == <<loaderVars, zoneVars, loads, crawlerVars, q1Vars, auditVars, imputeVars>>
imputeRest == <<loaderVars, zoneVars, loads, crawlerVars, q1Vars, auditVars, tipVars>>

otherVars == <<zoneVars, loads, analysisVars>>

----------------------------------------------------------------------------
(* Bounds of the model *)

MaxRows == 3
MaxLongRows == 6
MaxPersistentRows == 5
MaxPairRows == 3
MaxZones == 3

\* Rows per chunk of the lookup table.  The source reads 1000 rows per chunk
\* (chunksize=1000); the model reads ChunkRows, so that a table of a few rows
\* spans several chunks.
ChunkRows == 2

----------------------------------------------------------------------------
(* Program constants *)

MinDurationSeconds == 60
MaxFare == 20
MaxSpeedMph == 65
SecondsPerHour == 3600

columns_of_interest ==
    << "VendorID",
       "tpep_pickup_datetime",
       "lpep_pickup_datetime",
       "tpep_dropoff_datetime",
       "lpep_dropoff_datetime",
       "PULocationID",
       "DOLocationID",
       "trip_distance",
       "fare_amount",
       "total_amount",
       "congestion_surcharge",
       "tip_amount" >>

cols_mapping_lpep_unmapped ==
    [c \in {"VendorID", "tpep_pickup_datetime", "tpep_dropoff_datetime",
            "PULocationID", "DOLocationID", "trip_distance", "fare_amount",
            "total_amount", "congestion_surcharge", "tip_amount"} |->
        CASE c = "VendorID" -> "vendor_id"
          [] c = "tpep_pickup_datetime" -> "pickup_time"
          [] c = "tpep_dropoff_datetime" -> "dropoff_time"
          [] c = "PULocationID" -> "pickup_loc"
          [] c = "DOLocationID" -> "dropoff_loc"
          [] c = "fare_amount" -> "fare"
          [] OTHER -> c]

cols_mapping ==
    [c \in {"VendorID", "tpep_pickup_datetime", "lpep_pickup_datetime",
            "tpep_dropoff_datetime", "lpep_dropoff_datetime", "PULocationID",
            "DOLocationID", "trip_distance", "fare_amount", "total_amount",
            "congestion_surcharge", "tip_amount"} |->
        CASE c = "VendorID" -> "vendor_id"
          [] c = "tpep_pickup_datetime" -> "pickup_time"
          [] c = "lpep_pickup_datetime" -> "pickup_time"
          [] c = "tpep_dropoff_datetime" -> "dropoff_time"
          [] c = "lpep_dropoff_datetime" -> "dropoff_time"
          [] c = "PULocationID" -> "pickup_loc"
          [] c = "DOLocationID" -> "dropoff_loc"
          [] c = "trip_distance" -> "trip_distance"
          [] c = "fare_amount" -> "fare"
          [] c = "total_amount" -> "total_amount"
          [] c = "congestion_surcharge" -> "congestion_surcharge"
          [] c = "tip_amount" -> "tip_amount"]

----------------------------------------------------------------------------
(* Source files the loader is given *)

Range(s) == {s[i] : i \in DOMAIN s}

\* The yellow fleet's column names, in the order of the published files,
\* with one column outside the allow-list.
YellowSchema ==
    << "VendorID", "tpep_pickup_datetime", "tpep_dropoff_datetime",
       "passenger_count", "trip_distance", "PULocationID", "DOLocationID",
       "fare_amount", "tip_amount", "total_amount", "congestion_surcharge" >>

\* The green fleet's: other timestamp names, another column order.
GreenSchema ==
    << "VendorID", "lpep_pickup_datetime", "lpep_dropoff_datetime",
       "PULocationID", "DOLocationID", "passenger_count", "trip_distance",
       "fare_amount", "tip_amount", "total_amount", "congestion_surcharge" >>

\* Only the columns the filters read: every optional column is absent.
MinimalSchema ==
    << "tpep_pickup_datetime", "tpep_dropoff_datetime", "trip_distance",
       "fare_amount" >>

\* A file that carries both fleets' timestamp columns.
BothSchema ==
    << "VendorID", "tpep_pickup_datetime", "tpep_dropoff_datetime",
       "lpep_pickup_datetime", "lpep_dropoff_datetime", "trip_distance",
       "PULocationID", "DOLocationID", "fare_amount" >>

\* A file after schema drift: some optional columns and both zone columns
\* are gone, two columns outside the allow-list are there.
DriftedSchema ==
    << "tpep_pickup_datetime", "tpep_dropoff_datetime", "passenger_count",
       "trip_distance", "fare_amount", "tip_amount", "store_and_fwd_flag" >>

\* No allow-listed column at all.
UnknownSchema == << "passenger_count" >>

\* Timestamps and distance, no fare.
NoFareSchema ==
    << "tpep_pickup_datetime", "tpep_dropoff_datetime", "trip_distance",
       "PULocationID", "DOLocationID" >>

Trip(p, d, dist, fare) ==
    [pickup |-> p, dropoff |-> d, dist |-> dist, fare |-> fare]

\* Rows that meet each combination of the quality predicates.
TripSamples ==
    { Trip(100, 160, 10, 10),    \* one mile in a minute: passes all
      Trip(0, 3600, 650, 20),    \* 65 mph for an hour at fare 20: passes all
      Trip(100, 40, 10, 10),     \* dropoff before pickup
      Trip(100, 100, 10, 10),    \* pickup_time == dropoff_time
      Trip(100, 100, 0, 10),     \* no duration and no distance
      Trip(100, 130, 3, 10),     \* half a minute, 36 mph
      Trip(0, 60, 10, 25),       \* fare above the cap
      Trip(0, 60, 20, 10),       \* 120 mph
      Trip(100, 160, 10, 0),     \* fare = 0
      Trip(0, 60, 0, 10) }       \* trip_distance = 0

RECURSIVE SeqsUpTo(_, _)
SeqsUpTo(S, n) ==
    IF n = 0 THEN {<<>>}
    ELSE LET shorter == SeqsUpTo(S, n - 1)
         IN  shorter \cup {Append(s, x) : s \in {t \in shorter : Len(t) = n - 1}, x \in S}

\* The ten-row files of which exactly five rows have fare = 0 and the other
\* five pass every predicate.
ScenarioAFiles ==
    { [schema |-> YellowSchema,
       trips |-> [i \in 1..10 |-> IF i \in zero THEN Trip(100, 160, 10, 0)
                                  ELSE Trip(100, 160, 10, 10)]] :
        zero \in {z \in SUBSET (1..10) : Cardinality(z) = 5} }

\* Rows for the longer files, whose batches hold several rows.
LongSamples ==
    { Trip(100, 160, 10, 10),    \* passes all
      Trip(100, 40, 10, 10),     \* dropoff before pickup
      Trip(100, 100, 10, 10) }   \* pickup_time == dropoff_time

\* The load of a file that is not well-formed fails at its first batch
\* whatever its rows hold, so only the number of its rows is varied.
Files ==
    { [schema |-> s, trips |-> t] :
        s \in {YellowSchema, GreenSchema, MinimalSchema},
        t \in SeqsUpTo(TripSamples, MaxRows) }
    \cup { [schema |-> YellowSchema, trips |-> t] :
            t \in {u \in SeqsUpTo(LongSamples, MaxLongRows) : Len(u) > MaxRows} }
    \cup { [schema |-> s, trips |-> t] :
            s \in {BothSchema, UnknownSchema, NoFareSchema},
            t \in SeqsUpTo({Trip(100, 160, 10, 10)}, MaxRows) }
    \cup { [schema |-> DriftedSchema, trips |-> t] :
            t \in SeqsUpTo({Trip(100, 160, 10, 10), Trip(100, 160, 10, 0)}, MaxRows) }
    \cup ScenarioAFiles

\* The value a row holds in a source column.
CellValue(col, trip) ==
    CASE col \in {"tpep_pickup_datetime", "lpep_pickup_datetime"} -> trip.pickup
      [] col \in {"tpep_dropoff_datetime", "lpep_dropoff_datetime"} -> trip.dropoff
      [] col = "trip_distance" -> trip.dist
      [] col \in {"fare_amount", "total_amount"} -> trip.fare
      [] col = "PULocationID" -> 1
      [] col = "DOLocationID" -> 2
      [] col = "VendorID" -> 1
      [] col = "passenger_count" -> 1
      [] OTHER -> 0

----------------------------------------------------------------------------
(* Data frames *)

NoFrame == [err |-> "", columns |-> <<>>, index |-> <<>>, rows |-> <<>>]

\* An exception ends the computation of a frame: nothing of it is left.
Raise(frame, kind) == [NoFrame EXCEPT !.err = kind]

\* batch.to_pandas() of the rows lo+1..hi of the file (line 46).
to_pandas(f, lo, hi) ==
    [err |-> "",
     columns |-> f.schema,
     index |-> [k \in 1..(hi - lo) |-> k - 1],
     rows |-> [k \in 1..(hi - lo) |->
                  [c \in 1..Len(f.schema) |-> CellValue(f.schema[c], f.trips[lo + k])]]]

Positions(frame, name) == {c \in 1..Len(frame.columns) : frame.columns[c] = name}

HasColumn(frame, name) == Positions(frame, name) # {}

Cell(frame, r, name) ==
    frame.rows[r][CHOOSE c \in Positions(frame, name) : TRUE]

\* A selection that keeps every column of the batch.
SelectColumnsKeepsAll(frame) == frame

\* df[[col for col in columns_of_interest if col in df.columns]] (line 47).
SelectColumns(frame) ==
    LET kept == SelectSeq(columns_of_interest, LAMBDA c : HasColumn(frame, c))
    IN  [frame EXCEPT
            !.columns = kept,
            !.rows = [r \in 1..Len(frame.rows) |->
                        [k \in 1..Len(kept) |-> Cell(frame, r, kept[k])]]]

\* df.rename(columns=cols_mapping) (line 48).
Rename(frame) ==
    [frame EXCEPT
        !.columns = [k \in 1..Len(frame.columns) |->
                        IF frame.columns[k] \in DOMAIN cols_mapping
                        THEN cols_mapping[frame.columns[k]]
                        ELSE frame.columns[k]]]

\* A conversion that passes over a column that is not there.
ToDatetimeSkipsMissing(frame, name) ==
    IF frame.err # "" THEN frame
    ELSE IF Cardinality(Positions(frame, name)) > 1 THEN Raise(frame, "ValueError")
    ELSE frame

\* df[name] = pd.to_datetime(df[name]) (lines 51, 52).  df[name] is a
\* KeyError when no column has the label; with two columns of that label it
\* is a frame, which to_datetime cannot assemble into dates (ValueError).
\* The columns are timestamps already, so the values stay as they are.
ToDatetime(frame, name) ==
    IF frame.err # "" THEN frame
    ELSE IF Positions(frame, name) = {} THEN Raise(frame, "KeyError")
    ELSE IF Cardinality(Positions(frame, name)) > 1 THEN Raise(frame, "ValueError")
    ELSE frame

\* Lines 46-52.
Normalize(raw) ==
    ToDatetime(ToDatetime(Rename(SelectColumns(raw)), "pickup_time"), "dropoff_time")

\* The kept rows, last first.
KeepRowsReversed(frame, keep) ==
    LET at == SelectSeq([r \in 1..Len(frame.rows) |-> r], LAMBDA r : r \in keep)
        n == Len(at)
    IN  [frame EXCEPT
            !.index = [k \in 1..n |-> frame.index[at[n + 1 - k]]],
            !.rows = [k \in 1..n |-> frame.rows[at[n + 1 - k]]]]

\* The rows of a frame at the positions in keep, in their order: what
\* df.query leaves of a frame given the rows its expression holds for.
KeepRows(frame, keep) ==
    LET at == SelectSeq([r \in 1..Len(frame.rows) |-> r], LAMBDA r : r \in keep)
    IN  [frame EXCEPT
            !.index = [k \in 1..Len(at) |-> frame.index[at[k]]],
            !.rows = [k \in 1..Len(at) |-> frame.rows[at[k]]]]

\* df.query on a frame that lacks a column the expression names
\* (UndefinedVariableError).
MissingAny(frame, names) == \E n \in names : ~HasColumn(frame, n)

DurationSeconds(frame, r) == Cell(frame, r, "dropoff_time") - Cell(frame, r, "pickup_time")

\* trip_distance / (seconds / 3600) <= 65 in floating point: a positive
\* distance over no duration is inf, 0 / 0 is nan (no comparison holds of
\* either), a quotient by a negative duration is compared as it is.
\* dist is in tenths of a mile.
SpeedWithinLimit(dist, secs) ==
    IF secs > 0 THEN dist * SecondsPerHour <= MaxSpeedMph * 10 * secs
    ELSE IF secs < 0 THEN dist * SecondsPerHour >= MaxSpeedMph * 10 * secs
    ELSE dist < 0

\* The teleporter filter with the operands of the subtraction exchanged.
TeleporterFilterSwapped(frame) ==
    IF frame.err # "" THEN frame
    ELSE IF MissingAny(frame, {"dropoff_time", "pickup_time", "fare"})
         THEN Raise(frame, "UndefinedVariableError")
    ELSE KeepRows(frame, {r \in 1..Len(frame.rows) :
                            /\ 0 - DurationSeconds(frame, r) >= MinDurationSeconds
                            /\ Cell(frame, r, "fare") <= MaxFare})

\* A teleporter filter that tests the fare only.
TeleporterFilterFareOnly(frame) ==
    IF frame.err # "" THEN frame
    ELSE IF MissingAny(frame, {"dropoff_time", "pickup_time", "fare"})
         THEN Raise(frame, "UndefinedVariableError")
    ELSE KeepRows(frame, {r \in 1..Len(frame.rows) :
                            Cell(frame, r, "fare") <= MaxFare})

\* A teleporter filter that rejects the batch when a row fails.
TeleporterFilterRaises(frame) ==
    IF frame.err # "" THEN frame
    ELSE IF MissingAny(frame, {"dropoff_time", "pickup_time", "fare"})
         THEN Raise(frame, "UndefinedVariableError")
    ELSE IF \E r \in 1..Len(frame.rows) :
                \/ DurationSeconds(frame, r) < MinDurationSeconds
                \/ Cell(frame, r, "fare") > MaxFare
         THEN Raise(frame, "ValueError")
    ELSE frame

\* 1. Teleporter (line 57).  Fares are in dollars.
TeleporterFilter(frame) ==
    IF frame.err # "" THEN frame
    ELSE IF MissingAny(frame, {"dropoff_time", "pickup_time", "fare"})
         THEN Raise(frame, "UndefinedVariableError")
    ELSE KeepRows(frame, {r \in 1..Len(frame.rows) :
                            /\ DurationSeconds(frame, r) >= MinDurationSeconds
                            /\ Cell(frame, r, "fare") <= MaxFare})

\* The speed filter with a division that fails on a duration of zero.
SpeedFilterZeroDivision(frame) ==
    IF frame.err # "" THEN frame
    ELSE IF MissingAny(frame, {"dropoff_time", "pickup_time", "trip_distance"})
         THEN Raise(frame, "UndefinedVariableError")
    ELSE IF \E r \in 1..Len(frame.rows) : DurationSeconds(frame, r) = 0
         THEN Raise(frame, "ZeroDivisionError")
    ELSE KeepRows(frame, {r \in 1..Len(frame.rows) :
                            SpeedWithinLimit(Cell(frame, r, "trip_distance"),
                                             DurationSeconds(frame, r))})

\* 2. Impossible Physics (line 60).
SpeedFilter(frame) ==
    IF frame.err # "" THEN frame
    ELSE IF MissingAny(frame, {"dropoff_time", "pickup_time", "trip_distance"})
         THEN Raise(frame, "UndefinedVariableError")
    ELSE KeepRows(frame, {r \in 1..Len(frame.rows) :
                            SpeedWithinLimit(Cell(frame, r, "trip_distance"),
                                             DurationSeconds(frame, r))})

\* The stationary filter starting at the second row.
StationaryFilterSkipsFirst(frame) ==
    IF frame.err # "" THEN frame
    ELSE IF MissingAny(frame, {"trip_distance", "fare"})
         THEN Raise(frame, "UndefinedVariableError")
    ELSE KeepRows(frame, {r \in 2..Len(frame.rows) :
                            /\ Cell(frame, r, "trip_distance") > 0
                            /\ Cell(frame, r, "fare") > 0})

\* The stationary filter without its test of the fare.
StationaryFilterFareUnchecked(frame) ==
    IF frame.err # "" THEN frame
    ELSE IF MissingAny(frame, {"trip_distance", "fare"})
         THEN Raise(frame, "UndefinedVariableError")
    ELSE KeepRows(frame, {r \in 1..Len(frame.rows) :
                            Cell(frame, r, "trip_distance") > 0})

\* A stationary filter that also wants the dropoff inside zone 87.
StationaryFilterZoneAware(frame) ==
    IF frame.err # "" THEN frame
    ELSE IF MissingAny(frame, {"trip_distance", "fare"})
         THEN Raise(frame, "UndefinedVariableError")
    ELSE KeepRows(frame, {r \in 1..Len(frame.rows) :
                            /\ Cell(frame, r, "trip_distance") > 0
                            /\ Cell(frame, r, "fare") > 0
                            /\ HasColumn(frame, "dropoff_loc") =>
                                    Cell(frame, r, "dropoff_loc") = 87})

\* 3. Stationary Ride (line 63).
StationaryFilter(frame) ==
    IF frame.err # "" THEN frame
    ELSE IF MissingAny(frame, {"trip_distance", "fare"})
         THEN Raise(frame, "UndefinedVariableError")
    ELSE KeepRows(frame, {r \in 1..Len(frame.rows) :
                            /\ Cell(frame, r, "trip_distance") > 0
                            /\ Cell(frame, r, "fare") > 0})

\* Lines 57-63, in the order of the source.
FilterChain(frame) == StationaryFilter(SpeedFilter(TeleporterFilter(frame)))

\* An emptiness test that never answers yes.
EmptyNever(frame) == FALSE

\* df.empty (line 66): some axis has length 0.
Empty(frame) == Len(frame.rows) = 0 \/ Len(frame.columns) = 0

----------------------------------------------------------------------------
(* The batch size and the batch iterator *)

\* The batch size without its floor of one row.
BatchSizeUnfloored(n) == <<n, 2>>

\* max(1, total_rows / 2) (line 43).  "/" is true division, so the value is
\* the rational n / 2 unless 1 is at least as large; max returns its first
\* argument when neither is larger.
BatchSize(n) == IF n > 2 THEN <<n, 2>> ELSE <<1, 1>>

\* A conversion that rounds up.
AsInt64Ceiling(q) == (q[1] + q[2] - 1) \div q[2]

\* iter_batches takes batch_size as a 64-bit integer: the conversion of a
\* float drops its fraction.
AsInt64(q) == q[1] \div q[2]

\* An iterator that hands an empty file over as one batch of no rows.
HasNextBatchOfEmptyFile(read, n) == read < n \/ (n = 0 /\ physical = <<>>)

\* The iterator has a batch left while rows are unread (line 45).
HasNextBatch(read, n) == read < n

\* The end of the next batch: at most batch_size rows, fewer at the end of
\* the file.
NextBatchEnd(read, n, size) == IF read + size < n THEN read + size ELSE n

----------------------------------------------------------------------------
(* The generator and its consumer *)

\* A path that names no file, or a file that is no parquet file, has no rows
\* to speak of.
NoFile == [schema |-> <<>>, trips |-> <<>>]

InitLoader ==
    /\ \/ path = "readable" /\ file \in Files
       \/ path \in {"missing", "not_parquet"} /\ file = NoFile
    /\ handle = "none"
    /\ requests = 0
    /\ pc = "created"
    /\ total_rows = 0
    /\ batch_size = <<1, 1>>
    /\ offset = 0
    /\ physical = <<>>
    /\ normalized = NoFrame
    /\ df = NoFrame
    /\ emitted = <<>>
    /\ error = ""

\* The zone resolver before it is called.
ZoneIdle ==
    /\ zone_lookup = <<>>
    /\ zone_pc = "idle"
    /\ zone_read = 0
    /\ congestion_ids = {}

PairIdle == loads = <<>>

None == <<"None">>

CrawlerIdle ==
    /\ downloader = <<>>
    /\ web = <<>>
    /\ call = <<>>
    /\ dl_pc = "unused"
    /\ parquet_links = <<>>
    /\ link_i = 0
    /\ local_files = <<>>
    /\ http_log = <<>>
    /\ result = None
    /\ existed = FALSE
    /\ downloaded = <<>>
    /\ calls = 0

Q1Idle ==
    /\ q1_in = <<>>
    /\ q1_pc = "unused"
    /\ q1_files = <<>>
    /\ q1_i = 0
    /\ q1_b = 0
    /\ counts = <<>>
    /\ total = 0

AuditIdle ==
    /\ audit_in = <<>>
    /\ audit_pc = "unused"
    /\ parquet_files = <<>>
    /\ file_idx = 0
    /\ batch_idx = 0
    /\ total_should_pay = 0
    /\ total_paid = 0
    /\ missing_by_pickup = <<>>
    /\ total_by_pickup = <<>>
    /\ audit_result = <<>>

TipIdle ==
    /\ tip_in = <<>>
    /\ tip_pc = "unused"
    /\ tip_files = <<>>
    /\ tip_i = 0
    /\ tip_b = 0
    /\ monthly_rows = <<>>
    /\ results = <<>>
    /\ tip_result = <<>>
    /\ tip_seen = <<>>

ImputeIdle ==
    /\ imp_file = <<>>
    /\ imp_pc = "unused"
    /\ imp_offset = 0
    /\ dfs = <<>>
    /\ loaded = <<>>
    /\ restored = <<>>
    /\ imp_error = ""

AnalysisIdle == CrawlerIdle /\ Q1Idle /\ AuditIdle /\ TipIdle /\ ImputeIdle

Init == InitLoader /\ ZoneIdle /\ PairIdle /\ AnalysisIdle

\* A next() that starts an exhausted load over from the first row.
ConsumerNextRestarts ==
    /\ pc \in {"created", "yielded", "done"}
    /\ pc' = IF pc = "yielded" THEN "loop" ELSE "open"
    /\ offset' = IF pc = "done" THEN 0 ELSE offset
    /\ requests' = requests + 1
    /\ UNCHANGED <<file, total_rows, batch_size, physical, normalized,
                   df, emitted, error, path, handle>>
    /\ UNCHANGED otherVars

\* The consumer's for statement asks for the next batch: the first request
\* starts the generator's body, a later one resumes it after the yield.
ConsumerNext ==
    /\ pc \in {"created", "yielded"}
    /\ pc' = IF pc = "created" THEN "open" ELSE "loop"
    /\ requests' = requests + 1
    /\ UNCHANGED <<file, total_rows, batch_size, offset, physical, normalized,
                   df, emitted, error, path, handle>>
    /\ UNCHANGED otherVars

\* The consumer stops iterating before the end.
ConsumerStop ==
    /\ pc \in {"created", "yielded"}
    /\ pc' = "stopped"
    /\ UNCHANGED <<file, total_rows, batch_size, offset, physical, normalized,
                   df, emitted, error, path, handle, requests>>
    /\ UNCHANGED otherVars

\* The exception of pq.ParquetFile(file_path) (line 41).
OpenError(p) == IF p = "missing" THEN "FileNotFoundError" ELSE "ArrowInvalid"

\* An opening that takes an unreadable path for a file with nothing in it.
OpenSwallowsError ==
    /\ pc = "open"
    /\ IF path = "readable"
       THEN /\ handle' = "open"
            /\ total_rows' = Len(file.trips)
            /\ batch_size' = BatchSize(Len(file.trips))
            /\ pc' = "loop"
       ELSE /\ pc' = "done"
            /\ UNCHANGED <<handle, total_rows, batch_size>>
    /\ UNCHANGED <<file, offset, physical, normalized, df, emitted, error, path,
                   requests>>
    /\ UNCHANGED otherVars

\* Lines 41-43.  pq.ParquetFile raises when the path names no file
\* (FileNotFoundError) or a file that is no parquet file (ArrowInvalid);
\* otherwise pq_file holds the open file from here on.
Open ==
    /\ pc = "open"
    /\ IF path = "readable"
       THEN /\ handle' = "open"
            /\ total_rows' = Len(file.trips)
            /\ batch_size' = BatchSize(Len(file.trips))
            /\ pc' = "loop"
            /\ UNCHANGED error
       ELSE /\ pc' = "raised"
            /\ error' = OpenError(path)
            /\ UNCHANGED <<handle, total_rows, batch_size>>
    /\ UNCHANGED <<file, offset, physical, normalized, df, emitted, path, requests>>
    /\ UNCHANGED otherVars

\* A loader that reads ahead while the consumer still holds a batch.
ProcessBatchPrefetch ==
    /\ pc \in {"loop", "yielded"}
    /\ HasNextBatch(offset, total_rows)
    /\ \E size \in {AsInt64(batch_size)} :
       \E hi \in {NextBatchEnd(offset, total_rows, size)} :
       \E norm \in {Normalize(to_pandas(file, offset, hi))} :
       \E out \in {FilterChain(norm)} :
           IF size < 1
           THEN /\ pc' = "raised"
                /\ error' = "ArrowInvalid"
                /\ UNCHANGED <<offset, physical, normalized, df, emitted>>
           ELSE /\ offset' = hi
                /\ physical' = Append(physical, [lo |-> offset, hi |-> hi])
                /\ normalized' = norm
                /\ df' = out
                /\ IF out.err # ""
                   THEN /\ pc' = "raised"
                        /\ error' = out.err
                        /\ UNCHANGED emitted
                   ELSE IF Empty(out)
                   THEN /\ pc' = "loop"
                        /\ UNCHANGED <<emitted, error>>
                   ELSE /\ pc' = "yielded"
                        /\ emitted' = Append(emitted, [lo |-> offset, df |-> out])
                        /\ UNCHANGED error
    /\ UNCHANGED <<file, total_rows, batch_size, path, handle, requests>>
    /\ UNCHANGED otherVars

\* One turn of the loop of line 45: read a physical batch, normalise it,
\* filter it, and yield it unless it is empty.  A batch size below one reads
\* nothing (the reader rejects it).
ProcessBatch ==
    /\ pc = "loop"
    /\ HasNextBatch(offset, total_rows)
    /\ \E size \in {AsInt64(batch_size)} :
       \E hi \in {NextBatchEnd(offset, total_rows, size)} :
       \E norm \in {Normalize(to_pandas(file, offset, hi))} :
       \E out \in {FilterChain(norm)} :
           IF size < 1
           THEN /\ pc' = "raised"
                /\ error' = "ArrowInvalid"
                /\ UNCHANGED <<offset, physical, normalized, df, emitted>>
           ELSE /\ offset' = hi
                /\ physical' = Append(physical, [lo |-> offset, hi |-> hi])
                /\ normalized' = norm
                /\ df' = out
                /\ IF out.err # ""
                   THEN /\ pc' = "raised"
                        /\ error' = out.err
                        /\ UNCHANGED emitted
                   ELSE IF Empty(out)
                   THEN /\ pc' = "loop"
                        /\ UNCHANGED <<emitted, error>>
                   ELSE /\ pc' = "yielded"
                        /\ emitted' = Append(emitted, [lo |-> offset, df |-> out])
                        /\ UNCHANGED error
    /\ UNCHANGED <<file, total_rows, batch_size, path, handle, requests>>
    /\ UNCHANGED otherVars

\* The iterator of line 45 is exhausted: the generator returns.
Exhausted ==
    /\ pc = "loop"
    /\ ~HasNextBatch(offset, total_rows)
    /\ pc' = "done"
    /\ UNCHANGED <<file, total_rows, batch_size, offset, physical, normalized,
                   df, emitted, error, path, handle, requests>>
    /\ UNCHANGED otherVars

\* The function has no with block, no finally and no call of close: the
\* handle goes when the interpreter's memory manager reclaims pq_file, which
\* it can do once the generator has ended or was dropped, at no set time.
Collect ==
    /\ pc \in {"done", "raised", "stopped"}
    /\ handle = "open"
    /\ handle' = "released"
    /\ UNCHANGED <<file, pc, total_rows, batch_size, offset, physical, normalized,
                   df, emitted, error, path, requests>>
    /\ UNCHANGED otherVars

Next ==
    \/ ConsumerNext
    \/ ConsumerStop
    \/ Open
    \/ ProcessBatch
    \/ Exhausted
    \/ Collect

vars == <<loaderVars, otherVars>>

Spec == Init /\ [][Next]_vars

\* A consumer that keeps asking, as the for statements of the callers do:
\* every next() is followed by another until the generator ends.  The body
\* of the generator is sequential code, so each of its steps is taken once
\* it is due; when the memory manager reclaims the handle is not known.
PersistentNext ==
    \/ ConsumerNext
    \/ Open
    \/ ProcessBatch
    \/ Exhausted
    \/ Collect

\* The files this consumer is followed on: files of up to MaxPersistentRows
\* rows that pass or fail the filters, files whose first batch raises, and
\* the paths that cannot be opened.
PersistentFiles ==
    { [schema |-> YellowSchema, trips |-> t] :
        t \in SeqsUpTo({Trip(100, 160, 10, 10), Trip(100, 160, 10, 0)},
                       MaxPersistentRows) }
    \cup { [schema |-> s, trips |-> t] :
            s \in {BothSchema, UnknownSchema, NoFareSchema},
            t \in SeqsUpTo({Trip(100, 160, 10, 10)}, MaxRows) }

PersistentInit ==
    /\ \/ path = "readable" /\ file \in PersistentFiles
       \/ path \in {"missing", "not_parquet"} /\ file = NoFile
    /\ handle = "none"
    /\ requests = 0
    /\ pc = "created"
    /\ total_rows = 0
    /\ batch_size = <<1, 1>>
    /\ offset = 0
    /\ physical = <<>>
    /\ normalized = NoFrame
    /\ df = NoFrame
    /\ emitted = <<>>
    /\ error = ""
    /\ ZoneIdle
    /\ PairIdle
    /\ AnalysisIdle

PersistentSpec ==
    /\ PersistentInit
    /\ [][PersistentNext]_vars
    /\ WF_vars(ConsumerNext)
    /\ WF_vars(Open)
    /\ WF_vars(ProcessBatch)
    /\ WF_vars(Exhausted)

----------------------------------------------------------------------------
(* Vocabulary of the properties *)

\* The file has one pickup and one dropoff timestamp column, a distance and
\* a fare: the input the loader is specified for.
WellFormed(f) ==
    LET s == Range(f.schema)
    IN  /\ Cardinality(s \cap {"tpep_pickup_datetime", "lpep_pickup_datetime"}) = 1
        /\ Cardinality(s \cap {"tpep_dropoff_datetime", "lpep_dropoff_datetime"}) = 1
        /\ {"trip_distance", "fare_amount"} \subseteq s

\* The three quality predicates, stated of a row of the file.
SatisfiesAll(trip) ==
    /\ trip.dropoff - trip.pickup >= MinDurationSeconds
    /\ trip.fare <= MaxFare
    /\ trip.dist * SecondsPerHour <= MaxSpeedMph * 10 * (trip.dropoff - trip.pickup)
    /\ trip.dist > 0
    /\ trip.fare > 0

\* The places in the file (1 = first row) of the rows of an emitted batch.
FilePositions(e) == [k \in 1..Len(e.df.index) |-> e.lo + e.df.index[k] + 1]

RECURSIVE Flatten(_)
Flatten(seqs) ==
    IF seqs = <<>> THEN <<>> ELSE Head(seqs) \o Flatten(Tail(seqs))

EmittedPositions == Flatten([k \in 1..Len(emitted) |-> FilePositions(emitted[k])])

Ended == pc \in {"done", "raised", "stopped"}

----------------------------------------------------------------------------
(* Properties *)

\* C1: the physical batches read from a file, before any filtering, are
\* consecutive non-empty slices that start at the first row; the load of a
\* well-formed file never fails, and when the sequence is exhausted every
\* row of the file lies in exactly one physical batch.
PartitionProperty ==
    /\ \A k \in 1..Len(physical) :
          /\ physical[k].lo = (IF k = 1 THEN 0 ELSE physical[k - 1].hi)
          /\ physical[k].lo < physical[k].hi
          /\ physical[k].hi <= Len(file.trips)
    /\ WellFormed(file) => pc # "raised"
    /\ pc = "done" =>
          \A i \in 1..Len(file.trips) :
              Cardinality({k \in 1..Len(physical) :
                              physical[k].lo < i /\ i <= physical[k].hi}) = 1

\* A three-row file was read to its end in three physical batches.
PartitionWitness ==
    /\ pc = "done"
    /\ WellFormed(file)
    /\ Len(file.trips) = 3
    /\ Len(physical) = 3

\* C2: when the sequence is exhausted, the rows emitted over all batches are
\* exactly the rows of the file that satisfy the three quality predicates,
\* each once, with the values the file holds; a ten-row file with five
\* rows of fare 0 and five passing rows yields five rows in total.
EmittedAreTheFilteredRows ==
    pc = "done" =>
        /\ EmittedPositions =
              SelectSeq([i \in 1..Len(file.trips) |-> i],
                        LAMBDA i : SatisfiesAll(file.trips[i]))
        /\ \A k \in 1..Len(emitted) : \A r \in 1..Len(emitted[k].df.rows) :
              LET trip == file.trips[FilePositions(emitted[k])[r]]
                  row == emitted[k].df
              IN  /\ Cell(row, r, "pickup_time") = trip.pickup
                  /\ Cell(row, r, "dropoff_time") = trip.dropoff
                  /\ Cell(row, r, "trip_distance") = trip.dist
                  /\ Cell(row, r, "fare") = trip.fare
        /\ file \in ScenarioAFiles => Len(EmittedPositions) = 5

\* A ten-row file with five fare-0 rows was loaded and its five passing rows
\* came in two batches.
ScenarioAWitness ==
    /\ pc = "done"
    /\ file \in ScenarioAFiles
    /\ Len(emitted) = 2
    /\ Len(EmittedPositions) = 5

\* C3: every row of every emitted batch has dropoff_time >= pickup_time + 60,
\* fare <= 20, a speed of at most 65 mph, trip_distance > 0 and fare > 0, and
\* no emitted row comes from a file row with pickup_time = dropoff_time.
CanonicalShapeInvariant ==
    \A k \in 1..Len(emitted) : \A r \in 1..Len(emitted[k].df.rows) :
        LET row == emitted[k].df
            secs == Cell(row, r, "dropoff_time") - Cell(row, r, "pickup_time")
            trip == file.trips[FilePositions(emitted[k])[r]]
        IN  /\ Cell(row, r, "dropoff_time") >= Cell(row, r, "pickup_time") + 60
            /\ Cell(row, r, "fare") <= 20
            /\ Cell(row, r, "trip_distance") * 3600 <= 65 * 10 * secs
            /\ Cell(row, r, "trip_distance") > 0
            /\ Cell(row, r, "fare") > 0
            /\ trip.pickup # trip.dropoff

\* A file with a zero-duration row and a row before its pickup was loaded
\* and something was emitted.
CanonicalShapeWitness ==
    /\ pc = "done"
    /\ emitted # <<>>
    /\ \E i \in 1..Len(file.trips) : file.trips[i].pickup = file.trips[i].dropoff
    /\ \E i \in 1..Len(file.trips) : file.trips[i].pickup > file.trips[i].dropoff

\* C4: no batch the consumer receives has zero rows.
NoEmptyBatch ==
    \A k \in 1..Len(emitted) : Len(emitted[k].df.rows) > 0

\* A physical batch was filtered down to nothing and suppressed, another
\* one of the same file was emitted.
NoEmptyBatchWitness ==
    /\ pc = "done"
    /\ Len(emitted) >= 1
    /\ Len(physical) > Len(emitted)
    /\ \E k \in 1..Len(physical) :
          \A i \in (physical[k].lo + 1)..physical[k].hi : ~SatisfiesAll(file.trips[i])

\* C5 as stated: a file yields exactly two batches or none, and none exactly
\* when it is empty or every row is filtered away.
ExactlyTwoOrZeroBatches ==
    pc = "done" =>
        /\ Len(emitted) \in {0, 2}
        /\ Len(emitted) = 0 <=>
              \A i \in 1..Len(file.trips) : ~SatisfiesAll(file.trips[i])

\* The physical batches of which some row satisfies every predicate.
SurvivingBatches ==
    {k \in 1..Len(physical) :
        \E i \in (physical[k].lo + 1)..physical[k].hi : SatisfiesAll(file.trips[i])}

\* C5, amended: a file of no rows is read in no physical batch, of one row
\* in one, of an even number of rows in two, of an odd number of three or
\* more rows in three; one batch is emitted for each physical batch that
\* keeps a row, so between zero and three, and none exactly when the file is
\* empty or every row is filtered away.
BatchCountProperty ==
    pc = "done" =>
        /\ Len(physical) = (IF Len(file.trips) = 0 THEN 0
                            ELSE IF Len(file.trips) = 1 THEN 1
                            ELSE IF Len(file.trips) % 2 = 0 THEN 2
                            ELSE 3)
        /\ Len(emitted) = Cardinality(SurvivingBatches)
        /\ Len(emitted) \in 0..3
        /\ Len(emitted) = 0 <=>
              \A i \in 1..Len(file.trips) : ~SatisfiesAll(file.trips[i])

\* A file of an odd number of rows came in three batches.
ThreeBatchesWitness ==
    /\ pc = "done"
    /\ Len(file.trips) % 2 = 1
    /\ Len(emitted) = 3

\* C6: batches reach the consumer in file-offset order, each from the
\* physical batch read last, and the rows of a batch stand in the order they
\* have in the file.
DeliveryOrder ==
    /\ \A k \in 1..Len(emitted) :
          /\ k > 1 => emitted[k - 1].lo < emitted[k].lo
          /\ \E j \in 1..Len(physical) :
                /\ physical[j].lo = emitted[k].lo
                /\ \A r \in 1..Len(emitted[k].df.index) :
                      FilePositions(emitted[k])[r] \in (physical[j].lo + 1)..physical[j].hi
    /\ \A a, b \in 1..Len(EmittedPositions) :
          a < b => EmittedPositions[a] < EmittedPositions[b]
    /\ pc = "yielded" => emitted[Len(emitted)].lo = physical[Len(physical)].lo

\* A batch was emitted with two rows between which the filters removed one.
DeliveryOrderWitness ==
    \E k \in 1..Len(emitted) :
        /\ Len(emitted[k].df.index) >= 2
        /\ emitted[k].df.index[2] > emitted[k].df.index[1] + 1

\* C7: the filter chain applied to a batch that went through it returns the
\* same batch, rows and order.
FilterIdempotence ==
    /\ \A k \in 1..Len(emitted) : FilterChain(emitted[k].df) = emitted[k].df
    /\ df.err = "" /\ physical # <<>> => FilterChain(df) = df

\* A batch of several rows came out of the chain with a row removed.
FilterIdempotenceWitness ==
    /\ pc = "yielded"
    /\ Len(df.rows) >= 2
    /\ Len(normalized.rows) > Len(df.rows)

Apply(name, frame) ==
    CASE name = "teleporter" -> TeleporterFilter(frame)
      [] name = "speed" -> SpeedFilter(frame)
      [] name = "stationary" -> StationaryFilter(frame)

FilterOrders ==
    {o \in [1..3 -> {"teleporter", "speed", "stationary"}] :
        \A a, b \in 1..3 : a # b => o[a] # o[b]}

\* C8: on every normalised batch of a well-formed file the three filters
\* give the same rows in each of their six orders, and none of the orders
\* fails.
FilterCommutativity ==
    WellFormed(file) /\ physical # <<>> =>
        \A o \in FilterOrders :
            LET out == Apply(o[3], Apply(o[2], Apply(o[1], normalized)))
            IN  /\ normalized.err = ""
                /\ out.err = ""
                /\ out = df

\* The filters ran on a batch that holds a row of no duration, a row of
\* negative duration and a row that passes.
FilterCommutativityWitness ==
    /\ normalized.err = ""
    /\ Len(df.rows) >= 1
    /\ \E r \in 1..Len(normalized.rows) : DurationSeconds(normalized, r) = 0
    /\ \E r \in 1..Len(normalized.rows) : DurationSeconds(normalized, r) < 0

CanonicalColumns == {cols_mapping[c] : c \in DOMAIN cols_mapping}

\* The file with the other fleet's column names and the same rows.
Twin(f) ==
    [f EXCEPT !.schema = IF f.schema = YellowSchema THEN GreenSchema ELSE YellowSchema]

\* C9: the batches of a file with the tpep_* names and of the file with the
\* lpep_* names and the same values are equal after normalisation and after
\* filtering, and carry canonical column names only.
SchemaEquivalence ==
    file.schema \in {YellowSchema, GreenSchema} /\ physical # <<>> =>
        LET last == physical[Len(physical)]
            twin == Normalize(to_pandas(Twin(file), last.lo, last.hi))
        IN  /\ normalized.err = ""
            /\ twin = normalized
            /\ FilterChain(twin) = df
            /\ Range(normalized.columns) \subseteq CanonicalColumns
            /\ {"pickup_time", "dropoff_time", "pickup_loc", "dropoff_loc"}
                  \subseteq Range(normalized.columns)

\* A batch of a file with the lpep_* names was emitted.
SchemaEquivalenceWitness ==
    /\ file.schema = GreenSchema
    /\ pc = "yielded"
    /\ Len(df.rows) >= 1

\* C10: the load of a file of no rows reads nothing, emits nothing and does
\* not fail, whatever its columns.
ZeroRowFile ==
    path = "readable" /\ Len(file.trips) = 0 =>
        /\ pc \notin {"raised", "yielded"}
        /\ error = ""
        /\ emitted = <<>>
        /\ physical = <<>>

\* The load of an empty file with no known column ended normally.
ZeroRowFileWitness ==
    /\ Len(file.trips) = 0
    /\ file.schema = UnknownSchema
    /\ pc = "done"

----------------------------------------------------------------------------
(* The zone resolver: get_congestion_zone_ids *)

\* A zone name is the sequence of its characters; NA is a missing name.
NA == <<"<NA>">>

UpperWestSide == 
    << "U", "p", "p", "e", "r", " ", "W", "e", "s", "t", " ", "S",
       "i", "d", "e" >>
FinancialDistrict == 
    << "F", "i", "n", "a", "n", "c", "i", "a", "l", " ", "D", "i",
       "s", "t", "r", "i", "c", "t" >>
Astoria == 
    << "A", "s", "t", "o", "r", "i", "a" >>
EastHarlemLower == 
    << "e", "a", "s", "t", " ", "h", "a", "r", "l", "e", "m" >>

\* The alternatives of the pattern of line 17.
ExcludedTokens ==
    { << "U", "p", "p", "e", "r", " ", "E", "a", "s", "t" >>,
      << "U", "p", "p", "e", "r", " ", "W", "e", "s", "t" >>,
      << "H", "a", "r", "l", "e", "m" >>,
      << "W", "a", "s", "h", "i", "n", "g", "t", "o", "n", " ", "H",
         "e", "i", "g", "h", "t", "s" >>,
      << "I", "n", "w", "o", "o", "d" >> }

\* Rows of the lookup table: LocationID, Borough, Zone.
ZoneSamples ==
    { [LocationID |-> 238, Borough |-> "Manhattan", Zone |-> UpperWestSide],
      [LocationID |-> 87, Borough |-> "Manhattan", Zone |-> FinancialDistrict],
      [LocationID |-> 7, Borough |-> "Queens", Zone |-> Astoria],
      [LocationID |-> 74, Borough |-> "Manhattan", Zone |-> EastHarlemLower],
      [LocationID |-> 265, Borough |-> "Manhattan", Zone |-> NA] }

\* Case folding that does nothing.
LowerCaseKept(ch) == ch

\* case=False (line 18): letters compare by their lower-case form.
Lower(ch) ==
    CASE ch = "A" -> "a" [] ch = "B" -> "b" [] ch = "C" -> "c" [] ch = "D" -> "d"
      [] ch = "E" -> "e" [] ch = "F" -> "f" [] ch = "G" -> "g" [] ch = "H" -> "h"
      [] ch = "I" -> "i" [] ch = "J" -> "j" [] ch = "K" -> "k" [] ch = "L" -> "l"
      [] ch = "M" -> "m" [] ch = "N" -> "n" [] ch = "O" -> "o" [] ch = "P" -> "p"
      [] ch = "Q" -> "q" [] ch = "R" -> "r" [] ch = "S" -> "s" [] ch = "T" -> "t"
      [] ch = "U" -> "u" [] ch = "V" -> "v" [] ch = "W" -> "w" [] ch = "X" -> "x"
      [] ch = "Y" -> "y" [] ch = "Z" -> "z" [] OTHER -> ch

\* The token stands in the text from place at on.
RECURSIVE MatchesFrom(_, _, _, _)
MatchesFrom(text, token, at, k) ==
    IF k > Len(token) THEN TRUE
    ELSE IF at + k - 1 > Len(text) THEN FALSE
    ELSE IF Lower(text[at + k - 1]) # Lower(token[k]) THEN FALSE
    ELSE MatchesFrom(text, token, at, k + 1)

\* The search of a pattern alternative through the text, left to right.
RECURSIVE FoundFrom(_, _, _)
FoundFrom(text, token, at) ==
    IF at > Len(text) THEN FALSE
    ELSE IF MatchesFrom(text, token, at, 1) THEN TRUE
    ELSE FoundFrom(text, token, at + 1)

\* Series.str.contains(pattern, case=False, na=False) of one name (lines
\* 16-20): a missing name counts as no match.
str_contains(zone) ==
    IF zone = NA THEN FALSE
    ELSE \E token \in ExcludedTokens : FoundFrom(zone, token, 1)

\* Lines 12-23 on one chunk: the LocationIDs of the Manhattan rows whose
\* zone name does not match.
ChunkIds(chunk) ==
    { chunk[i].LocationID :
        i \in {j \in 1..Len(chunk) :
                  chunk[j].Borough = "Manhattan" /\ ~str_contains(chunk[j].Zone)} }

ZoneTables == SeqsUpTo(ZoneSamples, MaxZones)

\* Everything but the zone resolver is at rest.
LoaderIdle ==
    /\ file = NoFile
    /\ path = "readable"
    /\ handle = "none"
    /\ requests = 0
    /\ pc = "unused"
    /\ total_rows = 0
    /\ batch_size = <<1, 1>>
    /\ offset = 0
    /\ physical = <<>>
    /\ normalized = NoFrame
    /\ df = NoFrame
    /\ emitted = <<>>
    /\ error = ""

\* Lines 5-8.
ZoneInit ==
    /\ zone_lookup \in ZoneTables
    /\ zone_pc = "reading"
    /\ zone_read = 0
    /\ congestion_ids = {}
    /\ LoaderIdle
    /\ PairIdle
    /\ AnalysisIdle

\* One turn of the loop of line 10: the next chunk of the table goes
\* through lines 12-23.
ReadChunk ==
    /\ zone_pc = "reading"
    /\ zone_read < Len(zone_lookup)
    /\ LET hi == IF zone_read + ChunkRows < Len(zone_lookup)
                 THEN zone_read + ChunkRows ELSE Len(zone_lookup)
           chunk == SubSeq(zone_lookup, zone_read + 1, hi)
       IN  /\ congestion_ids' = congestion_ids \cup ChunkIds(chunk)
           /\ zone_read' = hi
    /\ UNCHANGED <<zone_lookup, zone_pc, loaderVars, loads, analysisVars>>

\* Line 25.
ZoneReturn ==
    /\ zone_pc = "reading"
    /\ zone_read >= Len(zone_lookup)
    /\ zone_pc' = "returned"
    /\ UNCHANGED <<zone_lookup, zone_read, congestion_ids, loaderVars, loads,
                   analysisVars>>

ZoneNext == ReadChunk \/ ZoneReturn

ZoneSpec == ZoneInit /\ [][ZoneNext]_vars

\* The two forms of each letter.
CasePairs ==
    { <<"A", "a">>, <<"B", "b">>, <<"C", "c">>, <<"D", "d">>, <<"E", "e">>,
      <<"F", "f">>, <<"G", "g">>, <<"H", "h">>, <<"I", "i">>, <<"J", "j">>,
      <<"K", "k">>, <<"L", "l">>, <<"M", "m">>, <<"N", "n">>, <<"O", "o">>,
      <<"P", "p">>, <<"Q", "q">>, <<"R", "r">>, <<"S", "s">>, <<"T", "t">>,
      <<"U", "u">>, <<"V", "v">>, <<"W", "w">>, <<"X", "x">>, <<"Y", "y">>,
      <<"Z", "z">> }

SameLetter(a, b) == a = b \/ <<a, b>> \in CasePairs \/ <<b, a>> \in CasePairs

\* Some alternative of the pattern occurs in the name, letter case aside.
NameExcluded(zone) ==
    /\ zone # NA
    /\ \E token \in ExcludedTokens : \E at \in 1..Len(zone) :
          /\ at + Len(token) - 1 <= Len(zone)
          /\ \A k \in 1..Len(token) : SameLetter(zone[at + k - 1], token[k])

\* C11: get_congestion_zone_ids returns exactly the LocationIDs of the rows
\* of the table, whatever chunk they are in, whose Borough is Manhattan and
\* whose Zone holds none of the excluded tokens, letter case aside; so
\* Manhattan's Upper West Side is left out and its Financial District is in.
ZoneClassification ==
    zone_pc = "returned" =>
        /\ congestion_ids =
              { zone_lookup[i].LocationID :
                  i \in {j \in 1..Len(zone_lookup) :
                            /\ zone_lookup[j].Borough = "Manhattan"
                            /\ ~NameExcluded(zone_lookup[j].Zone)} }
        /\ \A i \in 1..Len(zone_lookup) :
              /\ zone_lookup[i].Zone = UpperWestSide => zone_lookup[i].LocationID \notin congestion_ids
              /\ zone_lookup[i].Zone = EastHarlemLower => zone_lookup[i].LocationID \notin congestion_ids
              /\ zone_lookup[i].Zone = Astoria => zone_lookup[i].LocationID \notin congestion_ids
              /\ zone_lookup[i].Zone = FinancialDistrict => zone_lookup[i].LocationID \in congestion_ids

\* A table of more rows than a chunk holds, with the Upper West Side and the
\* Financial District in different chunks, was resolved.
ZoneClassificationWitness ==
    /\ zone_pc = "returned"
    /\ Len(zone_lookup) > ChunkRows
    /\ zone_lookup[1].Zone = UpperWestSide
    /\ zone_lookup[Len(zone_lookup)].Zone = FinancialDistrict
    /\ congestion_ids = {87}

----------------------------------------------------------------------------
(* Properties of the loader's life cycle *)

\* C12: however a load ends (the sequence exhausted, the consumer stopping
\* early, an error raised in a batch), the file handle it acquired is
\* released.
HandleReleasedAtEnd ==
    pc \in {"done", "raised", "stopped"} => handle # "open"

\* What the for statement of run_leakage_audit (Leakage_Audit.py, line 44,
\* inside the loop over files of line 40, neither within a try) makes of the
\* end of a load: a generator that returns ends the inner loop and the audit
\* goes on to the next file, an exception leaves run_leakage_audit.
AuditSees ==
    CASE pc = "done" -> "no more rows, next file"
      [] pc = "raised" -> "audit aborted by " \o error
      [] OTHER -> "iterating"

\* C13: for a path that names no file or no parquet file, nothing is read
\* and no batch is emitted, the load never ends like an exhausted sequence,
\* and once the consumer asks for the first batch the load fails with the
\* error of the open, which reaches the caller: run_leakage_audit is left by
\* that error and does not go on as it does after a file without rows.
UnreadableFileSurfaces ==
    path # "readable" =>
        /\ emitted = <<>>
        /\ physical = <<>>
        /\ handle = "none"
        /\ pc \in {"created", "open", "stopped", "raised"}
        /\ pc = "raised" <=> error # ""
        /\ pc = "raised" =>
              /\ error = (IF path = "missing" THEN "FileNotFoundError" ELSE "ArrowInvalid")
              /\ AuditSees = "audit aborted by " \o error
        /\ AuditSees # "no more rows, next file"
        /\ requests >= 1 => pc \in {"open", "raised"}

\* The load of a path that names no file failed at its first request.
UnreadableFileWitness ==
    /\ path = "missing"
    /\ pc = "raised"
    /\ error = "FileNotFoundError"
    /\ requests = 1

\* The source columns of the file that are on the allow-list.
AllowListed(f) == Range(f.schema) \cap Range(columns_of_interest)

\* C14: a file with rows and without any allow-listed column emits nothing;
\* its load fails while it handles the first physical batch, with the
\* KeyError of the missing pickup_time column, and never ends as exhausted.
NoAllowListedColumnFails ==
    (path = "readable" /\ AllowListed(file) = {} /\ Len(file.trips) >= 1) =>
        /\ emitted = <<>>
        /\ pc \notin {"yielded", "done"}
        /\ Len(physical) <= 1
        /\ physical # <<>> <=> pc = "raised"
        /\ pc = "raised" =>
              /\ error = "KeyError"
              /\ physical[1].lo = 0
              /\ normalized.columns = <<>>
              /\ df.err = "KeyError"

\* The first batch of such a file was read and the load failed on it.
NoAllowListedColumnWitness ==
    /\ path = "readable"
    /\ AllowListed(file) = {}
    /\ Len(file.trips) = MaxRows
    /\ Len(physical) = 1
    /\ pc = "raised"
    /\ error = "KeyError"

\* The source columns the filters and the conversions do not read.
OptionalColumns ==
    {"VendorID", "total_amount", "congestion_surcharge", "tip_amount"}

\* C15: the columns of every emitted batch are the canonical names of the
\* file's allow-listed columns, one column for each and in the order of the
\* allow-list, each holding the values of its source column: a column outside
\* the allow-list is not there, and neither is a canonical column whose source
\* column the file lacks.  A file that lacks optional columns and is otherwise
\* well-formed is loaded without an error.
ColumnSetProperty ==
    /\ \A k \in 1..Len(emitted) :
          LET out == emitted[k].df
              kept == SelectSeq(columns_of_interest,
                                LAMBDA c : c \in Range(file.schema))
          IN  /\ Range(out.columns) = {cols_mapping[c] : c \in AllowListed(file)}
              /\ Len(out.columns) = Cardinality(AllowListed(file))
              /\ out.columns = [i \in 1..Len(kept) |-> cols_mapping[kept[i]]]
              /\ \A r \in 1..Len(out.rows) :
                    out.rows[r] =
                        [i \in 1..Len(kept) |->
                            CellValue(kept[i],
                                      file.trips[FilePositions(emitted[k])[r]])]
    /\ (path = "readable" /\ WellFormed(file)
            /\ OptionalColumns \ Range(file.schema) # {}) => error = ""

\* A drifted file was loaded to its end and a batch of it was emitted, with
\* tip_amount and without the other optional columns.
ColumnSetWitness ==
    /\ file.schema = DriftedSchema
    /\ pc = "done"
    /\ emitted # <<>>
    /\ emitted[1].df.columns =
          <<"pickup_time", "dropoff_time", "trip_distance", "fare", "tip_amount">>

----------------------------------------------------------------------------
(* The loader and the zones *)

\* trips_entering_zone of Yellow_vs_Green_Decline.py (lines 39-45): the rows
\* picked up outside the zone set and dropped off inside it.  df["pickup_loc"]
\* is a KeyError on a frame without that column.
trips_entering_zone(frame, zone_set) ==
    IF frame.err # "" THEN frame
    ELSE IF MissingAny(frame, {"pickup_loc", "dropoff_loc"})
         THEN Raise(frame, "KeyError")
    ELSE KeepRows(frame, {r \in 1..Len(frame.rows) :
                            /\ Cell(frame, r, "pickup_loc") \notin zone_set
                            /\ Cell(frame, r, "dropoff_loc") \in zone_set})

\* Zone identifiers a row is moved to: 87 lies in the congestion zone of the
\* sample table, 238 does not.
ZoneIdSamples == {87, 238}

\* The batch with row r picked up in zone pu and dropped off in zone do, and
\* nothing else changed.
Relocate(frame, r, pu, do) ==
    [frame EXCEPT
        !.rows[r] = [c \in 1..Len(frame.columns) |->
                        CASE frame.columns[c] = "pickup_loc" -> pu
                          [] frame.columns[c] = "dropoff_loc" -> do
                          [] OTHER -> frame.rows[r][c]]]

\* C16: moving a row of a batch to other zones changes neither which rows of
\* the batch the filter chain keeps nor whether the batch is emitted, and a
\* kept row keeps the zones it has, inside the zone set or outside; it is
\* trips_entering_zone, at the consumer, that keeps the row or drops it by
\* its zones.
ZoneAgnostic ==
    normalized.err = "" =>
        \A r \in 1..Len(normalized.rows) : \A pu \in ZoneIdSamples, do \in ZoneIdSamples :
            LET moved == Relocate(normalized, r, pu, do)
                out == FilterChain(moved)
                at == {k \in 1..Len(out.index) : out.index[k] = normalized.index[r]}
            IN  /\ out.err = df.err
                /\ out.index = df.index
                /\ Empty(out) = Empty(df)
                /\ HasColumn(normalized, "pickup_loc") =>
                      \A k \in at :
                          /\ Cell(out, k, "pickup_loc") = pu
                          /\ Cell(out, k, "dropoff_loc") = do
                          /\ \A z \in SUBSET ZoneIdSamples :
                                normalized.index[r] \in Range(trips_entering_zone(out, z).index)
                                    <=> (pu \notin z /\ do \in z)

\* A batch with zone columns of which the chain kept some rows and not all
\* was emitted.
ZoneAgnosticWitness ==
    /\ pc = "yielded"
    /\ HasColumn(normalized, "pickup_loc")
    /\ HasColumn(normalized, "dropoff_loc")
    /\ Len(df.index) >= 1
    /\ Len(df.index) < Len(normalized.index)

----------------------------------------------------------------------------
(* The loader and the consumer's requests *)

\* C17, as stated: physical batch k+1 is read only after the consumer has
\* received batch k, so every physical batch read so far but the last one
\* was handed to the consumer.
ReadsOnlyAfterDelivery ==
    \A k \in 1..(Len(physical) - 1) :
        \E e \in 1..Len(emitted) : emitted[e].lo = physical[k].lo

\* C17: nothing is opened or read before the first request, every request
\* is answered by at most one batch, and a physical batch is read only while
\* a request of the consumer is waiting for its answer: between the delivery
\* of a batch and the next request the loader does nothing.  A physical
\* batch that filters down to nothing is not delivered, and the next one is
\* read within the same request.
PullBased ==
    /\ [](/\ requests - Len(emitted) \in {0, 1}
          /\ pc = "created" => (requests = 0 /\ handle = "none" /\ physical = <<>>)
          /\ pc = "yielded" => (requests = Len(emitted) /\ emitted # <<>>
                                  /\ df = emitted[Len(emitted)].df)
          /\ pc \in {"open", "loop"} => requests = Len(emitted) + 1)
    /\ [][/\ (physical' # physical \/ offset' # offset \/ emitted' # emitted
                \/ df' # df \/ (handle' = "open" /\ handle # "open"))
             => (pc \in {"open", "loop"} /\ requests = Len(emitted) + 1)
          /\ Len(emitted') <= Len(emitted) + 1
          /\ Len(physical') <= Len(physical) + 1]_vars

\* The third physical batch was read for the second request, after one
\* physical batch that was not delivered.
PullBasedWitness ==
    /\ pc = "yielded"
    /\ requests = 2
    /\ Len(emitted) = 2
    /\ Len(physical) = 3

----------------------------------------------------------------------------
(* The end of a load *)

\* The number of physical batches a file of n rows is read in.
PhysicalBatchCount(n) ==
    IF n = 0 THEN 0 ELSE IF n = 1 THEN 1 ELSE IF n % 2 = 0 THEN 2 ELSE 3

\* A step from a load that has ended changes nothing of what it read,
\* emitted and was asked for.
EndedStaysEnded ==
    pc \in {"done", "raised"} =>
        /\ pc' = pc
        /\ emitted' = emitted
        /\ physical' = physical
        /\ offset' = offset
        /\ requests' = requests

\* C18: with a consumer that keeps asking, every load comes to its end, by
\* exhaustion or by an error, and a load of a readable well-formed file by
\* exhaustion; at no time has a load emitted more batches than it has read,
\* nor read more than the file's physical batch count; and a load that has
\* ended stays ended: it reads nothing and emits nothing from then on.
LoadTerminates ==
    /\ <>(/\ pc \in {"done", "raised"}
           /\ (path = "readable" /\ WellFormed(file)) => pc = "done")
    /\ [](/\ Len(emitted) <= Len(physical)
          /\ Len(physical) <= PhysicalBatchCount(Len(file.trips))
          /\ pc = "done" => Len(physical) = PhysicalBatchCount(Len(file.trips)))
    /\ [][EndedStaysEnded]_vars

\* A load of three physical batches ended by exhaustion after it had emitted
\* two of them.
LoadTerminatesWitness ==
    /\ pc = "done"
    /\ Len(physical) = 3
    /\ Len(emitted) = 2
    /\ requests = 3

----------------------------------------------------------------------------
(* Two loads side by side *)

\* Each call of tlc_filtered_batches has its own local variables (lines
\* 9-45: the two column tables, pq_file, total_rows, batch_size, the batch
\* iterator); the module holds no variable of its own.  loads[i] is the
\* frame of call i.
PairFiles ==
    { [schema |-> YellowSchema, trips |-> t] :
        t \in SeqsUpTo({Trip(100, 160, 10, 10), Trip(100, 160, 10, 0)},
                       MaxPairRows) }
    \cup { [schema |-> NoFareSchema, trips |-> <<Trip(100, 160, 10, 10)>>] }

NewLoad(f) ==
    [file |-> f, pc |-> "created", total_rows |-> 0, batch_size |-> <<1, 1>>,
     offset |-> 0, emitted |-> <<>>, error |-> ""]

PairInit ==
    /\ loads \in [1..2 -> {NewLoad(f) : f \in PairFiles}]
    /\ LoaderIdle
    /\ ZoneIdle
    /\ AnalysisIdle

\* A reader position that the loads have in common.
ReadPositionShared(ls, i) ==
    IF ls[1].offset > ls[2].offset THEN ls[1].offset ELSE ls[2].offset

\* Where the batch iterator of load i stands: it belongs to the pq_file of
\* that call (lines 41, 45).
ReadPosition(ls, i) == ls[i].offset

PairRequest(i) ==
    /\ loads[i].pc \in {"created", "yielded"}
    /\ loads' = [loads EXCEPT ![i].pc = IF @ = "created" THEN "open" ELSE "loop"]
    /\ UNCHANGED <<loaderVars, zoneVars, analysisVars>>

\* Lines 41-43.
PairOpen(i) ==
    /\ loads[i].pc = "open"
    /\ loads' = [loads EXCEPT
                    ![i].total_rows = Len(loads[i].file.trips),
                    ![i].batch_size = BatchSize(Len(loads[i].file.trips)),
                    ![i].pc = "loop"]
    /\ UNCHANGED <<loaderVars, zoneVars, analysisVars>>

\* Lines 45-67, one turn of the loop.
PairBatch(i) ==
    /\ loads[i].pc = "loop"
    /\ HasNextBatch(ReadPosition(loads, i), loads[i].total_rows)
    /\ \E lo \in {ReadPosition(loads, i)} :
       \E hi \in {NextBatchEnd(lo, loads[i].total_rows, AsInt64(loads[i].batch_size))} :
       \E out \in {FilterChain(Normalize(to_pandas(loads[i].file, lo, hi)))} :
           loads' = [loads EXCEPT
                        ![i].offset = hi,
                        ![i].pc = IF out.err # "" THEN "raised"
                                  ELSE IF Empty(out) THEN "loop" ELSE "yielded",
                        ![i].error = out.err,
                        ![i].emitted = IF out.err = "" /\ ~Empty(out)
                                       THEN Append(@, [lo |-> lo, df |-> out])
                                       ELSE @]
    /\ UNCHANGED <<loaderVars, zoneVars, analysisVars>>

PairExhausted(i) ==
    /\ loads[i].pc = "loop"
    /\ ~HasNextBatch(ReadPosition(loads, i), loads[i].total_rows)
    /\ loads' = [loads EXCEPT ![i].pc = "done"]
    /\ UNCHANGED <<loaderVars, zoneVars, analysisVars>>

PairNext ==
    \E i \in 1..2 :
        \/ PairRequest(i)
        \/ PairOpen(i)
        \/ PairBatch(i)
        \/ PairExhausted(i)

PairSpec == PairInit /\ [][PairNext]_vars

\* What a load of file f emits from row lo on when it runs alone.
RECURSIVE SoloFrom(_, _)
SoloFrom(f, lo) ==
    LET n == Len(f.trips)
        hi == NextBatchEnd(lo, n, AsInt64(BatchSize(n)))
        out == FilterChain(Normalize(to_pandas(f, lo, hi)))
    IN  IF ~HasNextBatch(lo, n) THEN <<>>
        ELSE IF out.err # "" THEN <<>>
        ELSE IF Empty(out) THEN SoloFrom(f, hi)
        ELSE <<[lo |-> lo, df |-> out]>> \o SoloFrom(f, hi)

IsPrefix(s, t) == Len(s) <= Len(t) /\ s = SubSeq(t, 1, Len(s))

\* C19: however the steps of two loads interleave, of two files or of the
\* same file, what each load has emitted is the beginning of what it emits
\* when it runs alone, and all of it once the load has ended.
LoadsIndependent ==
    \A i \in DOMAIN loads :
        LET solo == SoloFrom(loads[i].file, 0)
        IN  /\ IsPrefix(loads[i].emitted, solo)
            /\ loads[i].pc \in {"done", "raised"} => loads[i].emitted = solo
            /\ loads[i].pc = "yielded" => loads[i].emitted # <<>>

\* Two loads of the same file are under way at once: each has emitted the
\* first of the file's two batches and holds its own place in the file.
LoadsIndependentWitness ==
    /\ loads # <<>>
    /\ loads[1].file = loads[2].file
    /\ Len(SoloFrom(loads[1].file, 0)) = 2
    /\ loads[1].pc = "yielded"
    /\ loads[2].pc = "yielded"
    /\ Len(loads[1].emitted) = 1
    /\ Len(loads[2].emitted) = 1

----------------------------------------------------------------------------
(* Rows and batches that fail the filters *)

\* C20: in the load of a well-formed file no filter raises, on any batch
\* and at any place in the chain: of the last batch read, the rows that fail
\* a predicate are left out and the others are kept as they were; a physical
\* batch of which no row is kept is not emitted and does not end the load,
\* which ends by exhaustion only, after it has read the whole file and
\* emitted every later batch that kept a row.
FiltersAreSilent ==
    (path = "readable" /\ WellFormed(file)) =>
        /\ error = ""
        /\ pc # "raised"
        /\ normalized.err = ""
        /\ df.err = ""
        /\ physical # <<>> =>
              LET last == physical[Len(physical)]
                  kept == {r \in 1..Len(normalized.rows) :
                              SatisfiesAll(file.trips[last.lo + r])}
              IN  /\ \A name \in {"teleporter", "speed", "stationary"} :
                        Apply(name, normalized).err = ""
                  /\ Len(normalized.rows) = last.hi - last.lo
                  /\ df.rows = SelectSeq(normalized.rows, LAMBDA row : row \in Range(df.rows))
                  /\ Range(df.index) = {normalized.index[r] : r \in kept}
                  /\ \A r \in kept : normalized.rows[r] \in Range(df.rows)
        /\ \A k \in 1..Len(physical) :
              (\E e \in 1..Len(emitted) : emitted[e].lo = physical[k].lo)
                  <=> k \in SurvivingBatches
        /\ \A k \in 1..Len(physical) :
              (k \notin SurvivingBatches /\ physical[k].hi < Len(file.trips)) =>
                  \/ k < Len(physical)
                  \/ pc = "loop"
        /\ pc = "done" => offset = Len(file.trips)

\* The first physical batch of a file filtered down to nothing and the
\* second was emitted.
FiltersAreSilentWitness ==
    /\ path = "readable"
    /\ WellFormed(file)
    /\ Len(physical) >= 2
    /\ 1 \notin SurvivingBatches
    /\ emitted # <<>>
    /\ emitted[1].lo = physical[2].lo
    /\ pc = "done"

----------------------------------------------------------------------------
(* TLCDownloader (Crawler.py) *)

\* Text is a sequence of tokens: words, separators and single digits.
MaxMonths == 2
MaxCalls == 2

\* str(n) for n >= 0, a digit each token.
DigitChar(d) == <<"0", "1", "2", "3", "4", "5", "6", "7", "8", "9">>[d + 1]

RECURSIVE Str(_)
Str(n) == IF n < 10 THEN <<DigitChar(n)>> ELSE Append(Str(n \div 10), DigitChar(n % 10))

\* {month:02d} (line 16).
Format02d(m) == IF m < 10 THEN <<"0">> \o Str(m) ELSE Str(m)

\* str.lower() of a token.
LowerToken(t) ==
    CASE t = "Yellow" -> "yellow"
      [] t = ".PARQUET" -> ".parquet"
      [] OTHER -> t

LowerText(text) == [k \in 1..Len(text) |-> LowerToken(text[k])]

\* pattern in text.
Contains(text, pattern) ==
    \E at \in 0..(Len(text) - Len(pattern)) :
        \A k \in 1..Len(pattern) : text[at + k] = pattern[k]

\* text.split("/")[-1].
LastSegment(text) ==
    LET slashes == {k \in 1..Len(text) : text[k] = "/"}
        from == IF slashes = {} THEN 0
                ELSE CHOOSE k \in slashes : \A j \in slashes : j <= k
    IN  SubSeq(text, from + 1, Len(text))

TaxiTypes == <<"yellow", "green">>

\* BASE_DIRECT_URL.format(taxi_type, year, month) (lines 16, 70-72).
DirectUrl(taxi_type, year, month) ==
    <<"https:", "/", "/", "d37ci6vzurychx.cloudfront.net", "/", "trip-data", "/",
      taxi_type, "_tripdata_">> \o Str(year) \o <<"-">> \o Format02d(month)
        \o <<".parquet">>

\* Lines 60-74: the URLs of the months that have begun, fleet by fleet.
generate_parquet_urls(year, months, now) ==
    LET OfType(t) ==
            LET kept == SelectSeq(months, LAMBDA m :
                            ~(year > now.year \/ (year = now.year /\ m > now.month)))
            IN  [k \in 1..Len(kept) |-> DirectUrl(t, year, kept[k])]
    IN  OfType(TaxiTypes[1]) \o OfType(TaxiTypes[2])

\* The test of lines 46-50 on one href.
LinkWanted(href, year) ==
    LET low == LowerText(href)
    IN  /\ \E k \in 1..Len(TaxiTypes) : Contains(low, <<TaxiTypes[k]>>)
        /\ Contains(low, Str(year))
        /\ low # <<>> /\ low[Len(low)] = ".parquet"

\* Lines 51-55.
FullUrl(href) ==
    IF href # <<>> /\ href[1] \in {"https:", "http:"} THEN href
    ELSE <<"https:", "/", "/", "www.nyc.gov">> \o href

\* Lines 39-58, on the hrefs of the page.
find_parquet_links(page, year) ==
    LET kept == SelectSeq(page, LAMBDA href : LinkWanted(href, year))
    IN  [k \in 1..Len(kept) |-> FullUrl(kept[k])]

\* get_folder (lines 29-32): os.path.join(base_download_dir, f"tlc_{year}").
get_folder(base, year) == base \o <<"/", "tlc_">> \o Str(year)

\* Line 81: os.path.join(folder, url.split("/")[-1]).
LocalFilename(url, folder) == folder \o <<"/">> \o LastSegment(url)

Exists(target) == target \in DOMAIN local_files

\* Hrefs the TLC page may carry.
SampleHrefs ==
    << <<"https:", "/", "/", "d37ci6vzurychx.cloudfront.net", "/", "trip-data", "/",
         "yellow", "_tripdata_", "2", "0", "2", "4", "-", "0", "1", ".parquet">>,
       <<"/", "assets", "/", "2", "0", "2", "4", "/", "yellow", "_zones", ".parquet">>,
       <<"https:", "/", "/", "d37ci6vzurychx.cloudfront.net", "/", "trip-data", "/",
         "fhv", "_tripdata_", "2", "0", "2", "4", "-", "0", "1", ".parquet">>,
       <<"https:", "/", "/", "d37ci6vzurychx.cloudfront.net", "/", "trip-data", "/",
         "Yellow", "_tripdata_", "2", "0", "2", "3", "-", "1", "2", ".PARQUET">> >>

Pages ==
    { SelectSeq([k \in 1..Len(SampleHrefs) |-> k], LAMBDA k : k \in on) :
        on \in SUBSET (1..Len(SampleHrefs)) }

PageOf(ks) == [k \in 1..Len(ks) |-> SampleHrefs[ks[k]]]

CrawlerInit ==
    /\ downloader \in [base_download_dir : {<<"tlc_data">>},
                       use_scrape_fallback : BOOLEAN]
    /\ web \in [page : {PageOf(ks) : ks \in Pages},
                now : {[year |-> 2024, month |-> 11]}]
    /\ call \in [year : {2023, 2024, 2025},
                 months : SeqsUpTo({1, 12}, MaxMonths) \ {<<>>}]
    /\ dl_pc = "idle"
    /\ parquet_links = <<>>
    /\ link_i = 0
    /\ local_files = <<>>
    /\ http_log = <<>>
    /\ result = None
    /\ existed = FALSE
    /\ downloaded = <<>>
    /\ calls = 0
    /\ LoaderIdle
    /\ ZoneIdle
    /\ PairIdle
    /\ Q1Idle
    /\ AuditIdle
    /\ TipIdle
    /\ ImputeIdle

\* The URL download_file was called with, and its local target.
Url == parquet_links[link_i]
Target == LocalFilename(Url, get_folder(downloader.base_download_dir, call.year))

\* Lines 124-137.  requests.get of the page may fail (or raise_for_status
\* may), and then download_year is left by that exception.
DownloadYear ==
    /\ dl_pc \in {"idle", "year_returned"}
    /\ calls < MaxCalls
    /\ calls' = calls + 1
    /\ link_i' = 0
    /\ downloaded' = <<>>
    /\ LET direct == generate_parquet_urls(call.year, call.months, web.now)
           scraped == find_parquet_links(web.page, call.year)
       IN  IF downloader.use_scrape_fallback
           THEN \/ /\ dl_pc' = "raised"
                   /\ UNCHANGED parquet_links
                \/ /\ dl_pc' = "loop"
                   /\ parquet_links' = IF scraped # <<>> THEN scraped ELSE direct
           ELSE /\ dl_pc' = "loop"
                /\ parquet_links' = direct
    /\ UNCHANGED <<downloader, web, call, local_files, http_log, result, existed>>
    /\ UNCHANGED crawlerRest

\* Lines 140-141 and 81-85: the next URL goes to download_file, which
\* returns the local path at once when the file is there.
DownloadFile ==
    /\ dl_pc = "loop"
    /\ link_i < Len(parquet_links)
    /\ link_i' = link_i + 1
    /\ http_log' = <<>>
    /\ LET target == LocalFilename(parquet_links[link_i + 1],
                        get_folder(downloader.base_download_dir, call.year))
       IN  /\ existed' = Exists(target)
           /\ IF Exists(target)
              THEN dl_pc' = "returned" /\ result' = target
              ELSE dl_pc' = "head" /\ UNCHANGED result
    /\ UNCHANGED <<downloader, web, call, parquet_links, local_files,
                   downloaded, calls>>
    /\ UNCHANGED crawlerRest

\* A HEAD whose answer is not looked at.
HeadUnchecked ==
    /\ dl_pc = "head"
    /\ \E status \in {"200", "404", "RequestException"} :
          http_log' = Append(http_log, [method |-> "HEAD", status |-> status])
    /\ dl_pc' = "get"
    /\ UNCHANGED <<downloader, web, call, parquet_links, link_i, local_files,
                   result, existed, downloaded, calls>>
    /\ UNCHANGED crawlerRest

\* Lines 88-95.
HeadRequest ==
    /\ dl_pc = "head"
    /\ \E status \in {"200", "404", "RequestException"} :
          /\ http_log' = Append(http_log, [method |-> "HEAD", status |-> status])
          /\ IF status = "200"
             THEN dl_pc' = "get" /\ UNCHANGED result
             ELSE dl_pc' = "returned" /\ result' = None
    /\ UNCHANGED <<downloader, web, call, parquet_links, link_i, local_files,
                   existed, downloaded, calls>>
    /\ UNCHANGED crawlerRest

\* Lines 100-101 and 117-122.
GetRequest ==
    /\ dl_pc = "get"
    /\ \E status \in {"200", "500", "RequestException"} :
          /\ http_log' = Append(http_log, [method |-> "GET", status |-> status])
          /\ IF status = "200"
             THEN dl_pc' = "open" /\ UNCHANGED result
             ELSE dl_pc' = "returned" /\ result' = None
    /\ UNCHANGED <<downloader, web, call, parquet_links, link_i, local_files,
                   existed, downloaded, calls>>
    /\ UNCHANGED crawlerRest

\* Line 104: open(local_filename, "wb") makes the file.
OpenLocal ==
    /\ dl_pc = "open"
    /\ local_files' = (Target :> "partial") @@ local_files
    /\ dl_pc' = "stream"
    /\ UNCHANGED <<downloader, web, call, parquet_links, link_i, http_log,
                   result, existed, downloaded, calls>>
    /\ UNCHANGED crawlerRest

\* Lines 111-115: every chunk arrives and the path is returned.
StreamBody ==
    /\ dl_pc = "stream"
    /\ local_files' = [local_files EXCEPT ![Target] = "complete"]
    /\ result' = Target
    /\ dl_pc' = "returned"
    /\ UNCHANGED <<downloader, web, call, parquet_links, link_i, http_log,
                   existed, downloaded, calls>>
    /\ UNCHANGED crawlerRest

\* Lines 111 and 120-122: the connection breaks while the body is read;
\* the with block closes the file and the handler returns None.
StreamBreaks ==
    /\ dl_pc = "stream"
    /\ http_log' = Append(http_log, [method |-> "GET", status |-> "RequestException"])
    /\ result' = None
    /\ dl_pc' = "returned"
    /\ UNCHANGED <<downloader, web, call, parquet_links, link_i, local_files,
                   existed, downloaded, calls>>
    /\ UNCHANGED crawlerRest

\* Lines 142-143.
KeepPath ==
    /\ dl_pc = "returned"
    /\ downloaded' = IF result # None THEN Append(downloaded, result) ELSE downloaded
    /\ dl_pc' = "loop"
    /\ UNCHANGED <<downloader, web, call, parquet_links, link_i, local_files,
                   http_log, result, existed, calls>>
    /\ UNCHANGED crawlerRest

\* Lines 145-146.
YearReturn ==
    /\ dl_pc = "loop"
    /\ link_i = Len(parquet_links)
    /\ dl_pc' = "year_returned"
    /\ UNCHANGED <<downloader, web, call, parquet_links, link_i, local_files,
                   http_log, result, existed, downloaded, calls>>
    /\ UNCHANGED crawlerRest

CrawlerNext ==
    \/ DownloadYear
    \/ DownloadFile
    \/ HeadRequest
    \/ GetRequest
    \/ OpenLocal
    \/ StreamBody
    \/ StreamBreaks
    \/ KeepPath
    \/ YearReturn

CrawlerSpec == CrawlerInit /\ [][CrawlerNext]_vars

----------------------------------------------------------------------------
(* Properties of the downloader *)

IsDigit(t) == t \in {"0", "1", "2", "3", "4", "5", "6", "7", "8", "9"}

\* <base_download_dir>/tlc_<year>/<fleet>_tripdata_<year>-<two digits>.parquet
InYearFolderAndNamed(target, base, year) ==
    \E fleet \in {"yellow", "green"}, d1 \in {"0", "1"},
       d2 \in {"0", "1", "2", "3", "4", "5", "6", "7", "8", "9"} :
        target = base \o <<"/", "tlc_">> \o Str(year) \o <<"/">>
                    \o <<fleet, "_tripdata_">> \o Str(year)
                    \o <<"-", d1, d2, ".parquet">>

\* C21: every path download_year returns lies in <base_download_dir>/tlc_<year>
\* and is named <fleet>_tripdata_<year>-<two-digit month>.parquet, with
\* direct URLs and with scraped links.
DownloadedNamesConform ==
    dl_pc = "year_returned" =>
        \A k \in 1..Len(downloaded) :
            InYearFolderAndNamed(downloaded[k], downloader.base_download_dir, call.year)

\* C22: a download_file call that finds its target on disk returns the
\* path and sends nothing; otherwise its first request is a HEAD, a GET is
\* sent only after a HEAD that answered 200, and after a HEAD that failed or
\* answered otherwise the call returns None with no further request and no
\* file at the target.
HeadBeforeGet ==
    link_i >= 1 =>
        /\ existed =>
              /\ http_log = <<>>
              /\ dl_pc \in {"returned", "loop", "year_returned"}
              /\ result = Target
        /\ (~existed /\ dl_pc # "head") => http_log # <<>>
        /\ http_log # <<>> =>
              /\ http_log[1].method = "HEAD"
              /\ \A k \in 2..Len(http_log) :
                    http_log[k].method = "GET" /\ http_log[1].status = "200"
              /\ http_log[1].status # "200" =>
                    /\ Len(http_log) = 1
                    /\ dl_pc \in {"returned", "loop", "year_returned"}
                    /\ result = None
                    /\ Target \notin DOMAIN local_files
        /\ dl_pc \in {"get", "open", "stream"} =>
              (http_log # <<>> /\ http_log[1].status = "200")
        /\ Target \in DOMAIN local_files =>
              (existed \/ (Len(http_log) >= 2 /\ http_log[2].status = "200"))

\* A HEAD answered 404 and the call returned None.
HeadBeforeGetWitness ==
    /\ dl_pc = "returned"
    /\ ~existed
    /\ http_log = <<[method |-> "HEAD", status |-> "404"]>>
    /\ result = None
    /\ calls = 2
    /\ local_files # <<>>

\* C26: when download_file has returned None, no file is at its target.
NoFileAfterNone ==
    (dl_pc = "returned" /\ result = None) => Target \notin DOMAIN local_files

----------------------------------------------------------------------------
(* Batch size, filter order, renamed columns *)

\* C23: the batch size is max(1, total_rows / 2), a positive whole number
\* of rows, and the file is read in at most two physical batches.
BatchSizeWholeAndTwoPasses ==
    (path = "readable" /\ pc \notin {"created", "open"}) =>
        /\ batch_size[1] >= batch_size[2]
        /\ batch_size[1] * 2 = (IF total_rows > 2 THEN total_rows * batch_size[2]
                                ELSE 2 * batch_size[2])
        /\ batch_size[1] % batch_size[2] = 0
        /\ Len(physical) <= 2

\* The durations the speed query of line 60 divides by when it is evaluated
\* on a frame: one division for each row of the frame.
SpeedDivisors(frame) == {DurationSeconds(frame, r) : r \in 1..Len(frame.rows)}

RenamedColumnsUnique ==
    physical # <<>> =>
        LET last == physical[Len(physical)]
            renamed == Rename(SelectColumns(to_pandas(file, last.lo, last.hi)))
        IN  /\ \A i \in 1..Len(renamed.columns), j \in 1..Len(renamed.columns) :
                  renamed.columns[i] = renamed.columns[j] => i = j
            /\ {"tpep_pickup_datetime", "lpep_pickup_datetime"} \subseteq Range(file.schema)
                  => (error = "" /\ Cardinality(Positions(normalized, "pickup_time")) = 1)

----------------------------------------------------------------------------
(* calculate_q1_entering_volumes (Yellow_vs_Green_Decline.py) *)

MaxQ1Batches == 2
MaxQ1Rows == 2

\* text.replace(token, "").
Without(text, token) == SelectSeq(text, LAMBDA t : t # token)

\* text.split("_")[-1].
AfterLastUnderscore(text) ==
    LET seps == {k \in 1..Len(text) : text[k] = "_"}
        from == IF seps = {} THEN 0 ELSE CHOOSE k \in seps : \A j \in seps : j <= k
    IN  SubSeq(text, from + 1, Len(text))

\* int(text) succeeds on one or more digits.
IsNumber(text) == text # <<>> /\ \A k \in 1..Len(text) : IsDigit(text[k])

RECURSIVE IntOf(_)
IntOf(text) ==
    IF text = <<>> THEN 0
    ELSE 10 * IntOf(SubSeq(text, 1, Len(text) - 1))
            + (CHOOSE d \in 0..9 : DigitChar(d) = text[Len(text)])

\* Lines 16-33 on one file name: TRUE when the name goes into q1_files.
\* y, m = date_part.split("-") needs exactly one "-", and int() digits.
IsQ1File(filename, year) ==
    LET name_lower == LowerText(filename)
        date_part == Without(AfterLastUnderscore(name_lower), ".parquet")
        dashes == {k \in 1..Len(date_part) : date_part[k] = "-"}
        dash == CHOOSE k \in dashes : TRUE
        y == SubSeq(date_part, 1, dash - 1)
        m == SubSeq(date_part, dash + 1, Len(date_part))
    IN  /\ name_lower # <<>> /\ name_lower[Len(name_lower)] = ".parquet"
        /\ Contains(name_lower, <<"tripdata">>)
        /\ Cardinality(dashes) = 1
        /\ IsNumber(y) /\ IsNumber(m)
        /\ IntOf(y) = year
        /\ 1 <= IntOf(m) /\ IntOf(m) <= 3

\* File names a folder may hold, in the order sort() puts them.
Q1SampleNames ==
    << <<"fhv", "_", "tripdata", "_", "2", "0", "2", "4", "-", "0", "1", ".parquet">>,
       <<"green", "_", "tripdata", "_", "2", "0", "2", "4", "-", "0", "2", ".parquet">>,
       <<"yellow", "_", "tripdata", "_", "2", "0", "2", "4", "-", "0", "1", ".parquet">>,
       <<"yellow", "_", "tripdata", "_", "2", "0", "2", "4", "-", "0", "4", ".parquet">>,
       <<"yellow", "_", "tripdata", "_", "latest", ".parquet">>,
       <<"zones", ".parquet">> >>

\* Lines 9-36: the Q1 files of the folder as full paths, sorted.
get_q1_parquet_files(folder, names, year) ==
    LET kept == SelectSeq(Q1SampleNames,
                          LAMBDA n : n \in names /\ IsQ1File(n, year))
    IN  [k \in 1..Len(kept) |-> folder \o <<"/">> \o kept[k]]

\* A batch of the loader as far as this module reads it.
ZoneFrame(rows) ==
    [err |-> "", columns |-> <<"pickup_loc", "dropoff_loc">>,
     index |-> [k \in 1..Len(rows) |-> k - 1], rows |-> rows]

\* Batches of one or more rows that enter zone 87 from zone 238 or stay in 87.
Q1Batches ==
    {ZoneFrame(rows) : rows \in SeqsUpTo({<<238, 87>>, <<87, 87>>}, MaxQ1Rows) \ {<<>>}}

Q1Init ==
    /\ q1_in \in [folder : {<<"tlc_data", "/", "tlc_2024">>},
                  names : SUBSET Range(Q1SampleNames),
                  year : {2024},
                  congestion_zone_ids : {{87}}]
    /\ q1_pc = "idle"
    /\ q1_files = <<>>
    /\ q1_i = 0
    /\ q1_b = 0
    /\ counts = <<>>
    /\ total = 0
    /\ LoaderIdle
    /\ ZoneIdle
    /\ PairIdle
    /\ CrawlerIdle
    /\ AuditIdle
    /\ TipIdle
    /\ ImputeIdle

\* Lines 58-70.
Q1Start ==
    /\ q1_pc = "idle"
    /\ total' = 0
    /\ q1_i' = 0
    /\ LET found == get_q1_parquet_files(q1_in.folder, q1_in.names, q1_in.year)
       IN  /\ q1_files' = found
           /\ IF found = <<>>
              THEN /\ counts' = [yellow |-> 0, green |-> 0, total |-> 0]
                   /\ q1_pc' = "returned"
              ELSE /\ counts' = [yellow |-> 0, green |-> 0]
                   /\ q1_pc' = "loop"
    /\ UNCHANGED <<q1_in, q1_b>>
    /\ UNCHANGED q1Rest

\* Lines 72-77: the next file is opened by the loader.
Q1OpenFile ==
    /\ q1_pc = "loop"
    /\ q1_i < Len(q1_files)
    /\ q1_i' = q1_i + 1
    /\ q1_b' = 0
    /\ q1_pc' = "file"
    /\ UNCHANGED <<q1_in, q1_files, counts, total>>
    /\ UNCHANGED q1Rest

\* Lines 77-90 for the next batch of the file.
Q1Batch ==
    /\ q1_pc = "file"
    /\ q1_b < MaxQ1Batches
    /\ q1_b' = q1_b + 1
    /\ \E frame \in Q1Batches :
          LET filename == LowerText(LastSegment(q1_files[q1_i]))
              is_yellow == Contains(filename, <<"yellow">>)
              is_green == Contains(filename, <<"green">>)
              entering == trips_entering_zone(frame, q1_in.congestion_zone_ids)
              trip_count == Len(entering.rows)
          IN  IF Empty(entering)
              THEN UNCHANGED <<counts, total>>
              ELSE /\ counts' = IF is_yellow
                                THEN [counts EXCEPT !.yellow = @ + trip_count]
                                ELSE IF is_green
                                THEN [counts EXCEPT !.green = @ + trip_count]
                                ELSE counts
                   /\ total' = total + trip_count
    /\ UNCHANGED <<q1_in, q1_pc, q1_files, q1_i>>
    /\ UNCHANGED q1Rest

\* The loader's sequence for the file is exhausted (line 77).
Q1FileDone ==
    /\ q1_pc = "file"
    /\ q1_pc' = "loop"
    /\ UNCHANGED <<q1_in, q1_files, q1_i, q1_b, counts, total>>
    /\ UNCHANGED q1Rest

\* Lines 92-93.
Q1Return ==
    /\ q1_pc = "loop"
    /\ q1_i = Len(q1_files)
    /\ counts' = [yellow |-> counts.yellow, green |-> counts.green, total |-> total]
    /\ q1_pc' = "returned"
    /\ UNCHANGED <<q1_in, q1_files, q1_i, q1_b, total>>
    /\ UNCHANGED q1Rest

Q1Next ==
    \/ Q1Start
    \/ Q1OpenFile
    \/ Q1Batch
    \/ Q1FileDone
    \/ Q1Return

Q1Spec == Q1Init /\ [][Q1Next]_vars

\* C27: after any files and batches the total is the sum of the yellow and
\* the green count, in the running counters and in the counts returned.
TotalIsSumOfFleets ==
    /\ q1_pc \in {"loop", "file"} => total = counts.yellow + counts.green
    /\ q1_pc = "returned" => counts.total = counts.yellow + counts.green

----------------------------------------------------------------------------
(* run_leakage_audit (Leakage_Audit.py) *)

MaxAuditBatches == 2
MaxAuditRows == 2

\* after_date = "2025-01-05" (line 11), as the day of January 2025.
AfterDay == 5

\* A congestion_surcharge cell: NaN, or an amount in cents.
NaN == [isna |-> TRUE, cents |-> 0]
Amount(c) == [isna |-> FALSE, cents |-> c]

AuditRow(day, pu, do, surcharge) ==
    [pickup_day |-> day, pickup_loc |-> pu, dropoff_loc |-> do,
     congestion_surcharge |-> surcharge]

AuditRowSamples ==
    { AuditRow(6, 7, 87, Amount(250)),     \* ends in the zone, surcharge paid
      AuditRow(6, 7, 87, Amount(0)),       \* ends in the zone, surcharge 0
      AuditRow(6, 238, 87, NaN),           \* ends in the zone, no surcharge value
      AuditRow(6, 238, 87, Amount(0 - 250)),  \* a refund
      AuditRow(6, 7, 7, Amount(0)),        \* ends outside the zone
      AuditRow(4, 7, 87, Amount(0)) }      \* before the toll began

\* The batches tlc_filtered_batches yields: never an empty one.
AuditBatches == SeqsUpTo(AuditRowSamples, MaxAuditRows) \ {<<>>}

\* The names a folder may hold, in sorted order.
AuditSampleNames ==
    << <<"green_tripdata_2025-01", ".parquet">>,
       <<"taxi_zone_lookup", ".csv">>,
       <<"yellow_tripdata_2025-01", ".parquet">> >>

\* fillna(0) > 0 (line 57).
IsPaid(surcharge) == (IF surcharge.isna THEN 0 ELSE surcharge.cents) > 0

\* x == 0 (line 65): False for NaN.
IsMissing(surcharge) == ~surcharge.isna /\ surcharge.cents = 0

\* defaultdict(int): a key that is not there counts 0.
Get(d, k) == IF k \in DOMAIN d THEN d[k] ELSE 0

AuditInit ==
    /\ audit_in \in [names : SUBSET Range(AuditSampleNames),
                     congestion_zone_ids : {{87}}]
    /\ audit_pc = "idle"
    /\ parquet_files = <<>>
    /\ file_idx = 0
    /\ batch_idx = 0
    /\ total_should_pay = 0
    /\ total_paid = 0
    /\ missing_by_pickup = <<>>
    /\ total_by_pickup = <<>>
    /\ audit_result = <<>>
    /\ LoaderIdle
    /\ ZoneIdle
    /\ PairIdle
    /\ CrawlerIdle
    /\ Q1Idle
    /\ TipIdle
    /\ ImputeIdle

\* Lines 21-37.
AuditStart ==
    /\ audit_pc = "idle"
    /\ LET found == SelectSeq(AuditSampleNames,
                        LAMBDA n : n \in audit_in.names /\ n[Len(n)] = ".parquet")
       IN  /\ parquet_files' = found
           /\ IF found = <<>>
              THEN /\ audit_pc' = "returned"
                   /\ audit_result' = [compliance_rate |-> <<0, 1>>, top3_missing |-> <<>>]
              ELSE /\ audit_pc' = "files"
                   /\ UNCHANGED audit_result
    /\ UNCHANGED <<audit_in, file_idx, batch_idx, total_should_pay, total_paid,
                   missing_by_pickup, total_by_pickup>>
    /\ UNCHANGED auditRest

\* Lines 40-44: the next file.
AuditOpenFile ==
    /\ audit_pc = "files"
    /\ file_idx < Len(parquet_files)
    /\ file_idx' = file_idx + 1
    /\ batch_idx' = 0
    /\ audit_pc' = "batches"
    /\ UNCHANGED <<audit_in, parquet_files, total_should_pay, total_paid,
                   missing_by_pickup, total_by_pickup, audit_result>>
    /\ UNCHANGED auditRest

\* Lines 44-72 for the next batch of the file.
AuditBatch ==
    /\ audit_pc = "batches"
    /\ batch_idx < MaxAuditBatches
    /\ batch_idx' = batch_idx + 1
    /\ \E batch \in AuditBatches :
          LET after == SelectSeq(batch, LAMBDA r : r.pickup_day >= AfterDay)
              entering == SelectSeq(after, LAMBDA r :
                              r.dropoff_loc \in audit_in.congestion_zone_ids)
              locs == {entering[k].pickup_loc : k \in 1..Len(entering)}
              OfLoc(loc) == SelectSeq(entering, LAMBDA r : r.pickup_loc = loc)
          IN  IF entering = <<>>
              THEN UNCHANGED <<total_should_pay, total_paid, missing_by_pickup,
                               total_by_pickup>>
              ELSE /\ total_should_pay' = total_should_pay + Len(entering)
                   /\ total_paid' = total_paid
                        + Len(SelectSeq(entering, LAMBDA r : IsPaid(r.congestion_surcharge)))
                   /\ total_by_pickup' =
                        [loc \in DOMAIN total_by_pickup \cup locs |->
                            Get(total_by_pickup, loc) + Len(OfLoc(loc))]
                   /\ missing_by_pickup' =
                        [loc \in DOMAIN missing_by_pickup \cup locs |->
                            Get(missing_by_pickup, loc)
                              + Len(SelectSeq(OfLoc(loc),
                                    LAMBDA r : IsMissing(r.congestion_surcharge)))]
    /\ UNCHANGED <<audit_in, audit_pc, parquet_files, file_idx, audit_result>>
    /\ UNCHANGED auditRest

\* The loader's sequence for the file is exhausted (line 44).
AuditFileDone ==
    /\ audit_pc = "batches"
    /\ audit_pc' = "files"
    /\ UNCHANGED <<audit_in, parquet_files, file_idx, batch_idx, total_should_pay,
                   total_paid, missing_by_pickup, total_by_pickup, audit_result>>
    /\ UNCHANGED auditRest

\* Lines 78-97.  A rate is a pair <<numerator, denominator>>; the three
\* rows of highest missing rate come in descending order, rows of equal rate
\* in either order.
AuditReturn ==
    /\ audit_pc = "files"
    /\ file_idx = Len(parquet_files)
    /\ LET locs == {loc \in DOMAIN total_by_pickup : total_by_pickup[loc] > 0}
           Rate(loc) == <<missing_by_pickup[loc], total_by_pickup[loc]>>
           Descending(order) ==
               \A i \in 1..Len(order), j \in 1..Len(order) :
                   i < j => Rate(order[i])[1] * Rate(order[j])[2]
                                >= Rate(order[j])[1] * Rate(order[i])[2]
       IN  \E order \in SeqsUpTo(locs, 3) :
              /\ Len(order) = (IF Cardinality(locs) < 3 THEN Cardinality(locs) ELSE 3)
              /\ Cardinality(Range(order)) = Len(order)
              /\ Descending(order)
              /\ \A loc \in locs \ Range(order) : \A k \in 1..Len(order) :
                    Rate(order[k])[1] * Rate(loc)[2] >= Rate(loc)[1] * Rate(order[k])[2]
              /\ audit_result' =
                    [compliance_rate |-> IF total_should_pay # 0
                                         THEN <<total_paid, total_should_pay>>
                                         ELSE <<0, 1>>,
                     top3_missing |-> [k \in 1..Len(order) |->
                                          [pickup_loc |-> order[k],
                                           total_trips |-> total_by_pickup[order[k]],
                                           missing_trips |-> missing_by_pickup[order[k]]]]]
    /\ audit_pc' = "returned"
    /\ UNCHANGED <<audit_in, parquet_files, file_idx, batch_idx, total_should_pay,
                   total_paid, missing_by_pickup, total_by_pickup>>
    /\ UNCHANGED auditRest

AuditNext ==
    \/ AuditStart
    \/ AuditOpenFile
    \/ AuditBatch
    \/ AuditFileDone
    \/ AuditReturn

AuditSpec == AuditInit /\ [][AuditNext]_vars

RECURSIVE SumOver(_, _)
SumOver(d, keys) ==
    IF keys = {} THEN 0
    ELSE LET k == CHOOSE x \in keys : TRUE
         IN  d[k] + SumOver(d, keys \ {k})

\* C28: every trip counted in total_should_pay is counted as paid or as
\* missing and as one trip of its pickup location: total_paid plus the sum of
\* missing_by_pickup is total_should_pay, and so is the sum of total_by_pickup.
EveryTripPaidOrMissing ==
    audit_pc # "unused" =>
        /\ total_paid + SumOver(missing_by_pickup, DOMAIN missing_by_pickup)
              = total_should_pay
        /\ SumOver(total_by_pickup, DOMAIN total_by_pickup) = total_should_pay

----------------------------------------------------------------------------
(* aggregate_2025_folder (Hypothesis/Tip_Crowding_Out_Analysis.py) *)

MaxTipBatches == 2
MaxTipRows == 2

\* A float is a fraction <<numerator, denominator>> in lowest terms.
RECURSIVE Gcd(_, _)
Gcd(a, b) == IF b = 0 THEN a ELSE Gcd(b, a % b)

Rat(n, d) == LET g == Gcd(n, d) IN <<n \div g, d \div g>>

RatAdd(p, q) == Rat(p[1] * q[2] + q[1] * p[2], p[2] * q[2])

RECURSIVE RatSum(_)
RatSum(values) ==
    IF values = <<>> THEN <<0, 1>>
    ELSE RatAdd(Head(values), RatSum(Tail(values)))

\* Series.mean().
Mean(values) ==
    LET sum == RatSum(values) IN Rat(sum[1], sum[2] * Len(values))

\* A row of a batch of the loader: the pickup date, the pickup location, fare
\* and surcharge in cents, and the tip in cents or NaN.
TipRow(year, month, day, pu, fare, tip, surcharge) ==
    [year |-> year, month |-> month, day |-> day, pickup_loc |-> pu,
     fare |-> fare, tip_amount |-> tip, congestion_surcharge |-> surcharge]

TipRowSamples ==
    { TipRow(2025, 1, 6, 87, 1000, Amount(200), 250),
      TipRow(2025, 1, 6, 87, 1000, NaN, 0),
      TipRow(2025, 2, 1, 87, 2000, Amount(100), 250),
      TipRow(2025, 1, 3, 87, 1000, Amount(0), 0),     \* before the toll began
      TipRow(2024, 12, 31, 87, 1000, Amount(0), 0),   \* not 2025
      TipRow(2025, 2, 1, 7, 1000, Amount(0), 0) }     \* picked up outside the zone

TipBatches == SeqsUpTo(TipRowSamples, MaxTipRows) \ {<<>>}

TipSampleNames ==
    << <<"taxi_zone_lookup", ".csv">>,
       <<"yellow_tripdata_2025-01", ".parquet">>,
       <<"yellow_tripdata_2025-02", ".parquet">> >>

\* compute_tip_percent (lines 19-37) for one row.
tip_percent(row) ==
    IF row.fare > 0 /\ ~row.tip_amount.isna
    THEN Rat(row.tip_amount.cents * 100, row.fare)
    ELSE <<0, 1>>

\* Lines 59-76: the rows of 2025, from after_date on, picked up in the zone.
Qualifying(batch, zone_ids) ==
    SelectSeq(batch, LAMBDA r :
        /\ r.year = 2025
        /\ (r.month > 1 \/ r.day >= AfterDay)
        /\ r.pickup_loc \in zone_ids)

MonthsOf(rows) == {rows[k].month : k \in 1..Len(rows)}

\* Lines 91-95: one row per month of the batch.
MonthlyOf(rows) ==
    [m \in MonthsOf(rows) |->
        LET of == SelectSeq(rows, LAMBDA r : r.month = m)
        IN  [avg_surcharge |->
                 Mean([k \in 1..Len(of) |-> <<of[k].congestion_surcharge, 1>>]),
             avg_tip_percent |-> Mean([k \in 1..Len(of) |-> tip_percent(of[k])]),
             trip_count |-> <<Len(of), 1>>]]

\* pd.concat(frames).groupby("month").mean(numeric_only=True) (lines 102-103,
\* 127-128): for every month, the mean of each column over the frames that
\* have the month.
GroupMean(frames) ==
    LET months == UNION {DOMAIN frames[k] : k \in 1..Len(frames)}
    IN  [m \in months |->
            LET with == SelectSeq(frames, LAMBDA f : m \in DOMAIN f)
            IN  [avg_surcharge |-> Mean([k \in 1..Len(with) |-> with[k][m].avg_surcharge]),
                 avg_tip_percent |-> Mean([k \in 1..Len(with) |-> with[k][m].avg_tip_percent]),
                 trip_count |-> Mean([k \in 1..Len(with) |-> with[k][m].trip_count])]]

TipInit ==
    /\ tip_in \in [names : SUBSET Range(TipSampleNames), congestion_zone_ids : {{87}}]
    /\ tip_pc = "idle"
    /\ tip_files = <<>>
    /\ tip_i = 0
    /\ tip_b = 0
    /\ monthly_rows = <<>>
    /\ results = <<>>
    /\ tip_result = <<>>
    /\ tip_seen = <<>>
    /\ LoaderIdle
    /\ ZoneIdle
    /\ PairIdle
    /\ CrawlerIdle
    /\ Q1Idle
    /\ AuditIdle
    /\ ImputeIdle

\* Lines 111-114.
TipStart ==
    /\ tip_pc = "idle"
    /\ tip_files' = SelectSeq(TipSampleNames,
                        LAMBDA n : n \in tip_in.names /\ n[Len(n)] = ".parquet")
    /\ tip_pc' = "files"
    /\ UNCHANGED <<tip_in, tip_i, tip_b, monthly_rows, results, tip_result, tip_seen>>
    /\ UNCHANGED tipRest

\* Lines 116-120 and 48-54: the next file.
TipOpenFile ==
    /\ tip_pc = "files"
    /\ tip_i < Len(tip_files)
    /\ tip_i' = tip_i + 1
    /\ tip_b' = 0
    /\ monthly_rows' = <<>>
    /\ tip_pc' = "batches"
    /\ UNCHANGED <<tip_in, tip_files, results, tip_result, tip_seen>>
    /\ UNCHANGED tipRest

\* Lines 54-97 for the next batch of the file.
TipBatch ==
    /\ tip_pc = "batches"
    /\ tip_b < MaxTipBatches
    /\ tip_b' = tip_b + 1
    /\ \E batch \in TipBatches :
          LET rows == Qualifying(batch, tip_in.congestion_zone_ids)
          IN  /\ monthly_rows' = IF rows = <<>> THEN monthly_rows
                                 ELSE Append(monthly_rows, MonthlyOf(rows))
              /\ tip_seen' = [m \in DOMAIN tip_seen \cup MonthsOf(rows) |->
                                 Get(tip_seen, m)
                                   + Len(SelectSeq(rows, LAMBDA r : r.month = m))]
    /\ UNCHANGED <<tip_in, tip_pc, tip_files, tip_i, results, tip_result>>
    /\ UNCHANGED tipRest

\* Lines 99-103 and 120-122: the file's table, kept when it is not empty.
TipFileDone ==
    /\ tip_pc = "batches"
    /\ results' = IF monthly_rows = <<>> THEN results
                  ELSE Append(results, GroupMean(monthly_rows))
    /\ tip_pc' = "files"
    /\ UNCHANGED <<tip_in, tip_files, tip_i, tip_b, monthly_rows, tip_result, tip_seen>>
    /\ UNCHANGED tipRest

\* Lines 124-128.
TipReturn ==
    /\ tip_pc = "files"
    /\ tip_i = Len(tip_files)
    /\ tip_result' = IF results = <<>> THEN <<>> ELSE GroupMean(results)
    /\ tip_pc' = "returned"
    /\ UNCHANGED <<tip_in, tip_files, tip_i, tip_b, monthly_rows, results, tip_seen>>
    /\ UNCHANGED tipRest

TipNext ==
    \/ TipStart
    \/ TipOpenFile
    \/ TipBatch
    \/ TipFileDone
    \/ TipReturn

TipSpec == TipInit /\ [][TipNext]_vars

\* C29: the trip_count aggregate_2025_folder reports for a month is the
\* number of qualifying trips of that month in all batches of all files.
TripCountIsTotal ==
    tip_pc = "returned" =>
        /\ DOMAIN tip_result = DOMAIN tip_seen
        /\ \A m \in DOMAIN tip_seen : tip_result[m].trip_count = <<tip_seen[m], 1>>

----------------------------------------------------------------------------
(* load_month and restore_schema (impute_december_2025_tlc_batches.py) *)

MaxImputeRows == 2

FULL_SCHEMA_COLS ==
    << "VendorID",
       "tpep_pickup_datetime",
       "tpep_dropoff_datetime",
       "passenger_count",
       "trip_distance",
       "RatecodeID",
       "store_and_fwd_flag",
       "PULocationID",
       "DOLocationID",
       "payment_type",
       "fare_amount",
       "extra",
       "mta_tax",
       "tip_amount",
       "tolls_amount",
       "improvement_surcharge",
       "total_amount",
       "congestion_surcharge",
       "Airport_fee" >>

\* The renaming of lines 80-83.
lpep_rename ==
    [c \in {"lpep_pickup_datetime", "lpep_dropoff_datetime"} |->
        IF c = "lpep_pickup_datetime" THEN "tpep_pickup_datetime"
        ELSE "tpep_dropoff_datetime"]

\* The renaming of lines 86-92.
canonical_rename ==
    [c \in {"pickup_time", "dropoff_time", "pickup_loc", "dropoff_loc", "fare"} |->
        CASE c = "pickup_time" -> "tpep_pickup_datetime"
          [] c = "dropoff_time" -> "tpep_dropoff_datetime"
          [] c = "pickup_loc" -> "PULocationID"
          [] c = "dropoff_loc" -> "DOLocationID"
          [] c = "fare" -> "fare_amount"]

\* df.rename(columns=mapping, inplace=True).
RenameBy(frame, mapping) ==
    [frame EXCEPT
        !.columns = [k \in 1..Len(frame.columns) |->
                        IF frame.columns[k] \in DOMAIN mapping
                        THEN mapping[frame.columns[k]]
                        ELSE frame.columns[k]]]

\* Lines 75-102.  A cell of the frame returned is a value the frame given
\* holds, or a fill: NaN, and 0.0 in Airport_fee.
restore_schema(frame) ==
    LET green == IF HasColumn(frame, "lpep_pickup_datetime")
                 THEN RenameBy(frame, lpep_rename) ELSE frame
        named == IF HasColumn(green, "pickup_time")
                 THEN RenameBy(green, canonical_rename) ELSE green
    IN  [err |-> "",
         columns |-> FULL_SCHEMA_COLS,
         index |-> named.index,
         rows |-> [r \in 1..Len(named.rows) |->
                     [k \in 1..Len(FULL_SCHEMA_COLS) |->
                         IF HasColumn(named, FULL_SCHEMA_COLS[k])
                         THEN Amount(Cell(named, r, FULL_SCHEMA_COLS[k]))
                         ELSE IF FULL_SCHEMA_COLS[k] = "Airport_fee" THEN Amount(0)
                         ELSE NaN]]]

RECURSIVE ConcatRows(_)
ConcatRows(frames) ==
    IF frames = <<>> THEN <<>>
    ELSE Head(frames).rows \o ConcatRows(Tail(frames))

\* pd.concat(dfs, ignore_index=True) (line 67) of frames of one file, which
\* have the same columns.
Concat(frames) ==
    LET rows == ConcatRows(frames)
    IN  [err |-> "",
         columns |-> frames[1].columns,
         index |-> [k \in 1..Len(rows) |-> k - 1],
         rows |-> rows]

ImputeFiles ==
    { [schema |-> s, trips |-> t] :
        s \in {YellowSchema, GreenSchema, MinimalSchema, BothSchema},
        t \in SeqsUpTo(TripSamples, MaxImputeRows) }

ImputeInit ==
    /\ imp_file \in ImputeFiles
    /\ imp_pc = "idle"
    /\ imp_offset = 0
    /\ dfs = <<>>
    /\ loaded = <<>>
    /\ restored = <<>>
    /\ imp_error = ""
    /\ LoaderIdle
    /\ ZoneIdle
    /\ PairIdle
    /\ CrawlerIdle
    /\ Q1Idle
    /\ AuditIdle
    /\ TipIdle

\* Lines 55-60.
LoadMonthStart ==
    /\ imp_pc = "idle"
    /\ imp_pc' = "loop"
    /\ UNCHANGED <<imp_file, imp_offset, dfs, loaded, restored, imp_error>>
    /\ UNCHANGED imputeRest

\* Lines 61-62: the loader's next batch, if it yields one.
LoadMonthBatch ==
    /\ imp_pc = "loop"
    /\ HasNextBatch(imp_offset, Len(imp_file.trips))
    /\ LET n == Len(imp_file.trips)
           hi == NextBatchEnd(imp_offset, n, AsInt64(BatchSize(n)))
           out == FilterChain(Normalize(to_pandas(imp_file, imp_offset, hi)))
       IN  /\ imp_offset' = hi
           /\ IF out.err # ""
              THEN /\ imp_pc' = "raised"
                   /\ imp_error' = out.err
                   /\ UNCHANGED dfs
              ELSE /\ dfs' = IF Empty(out) THEN dfs ELSE Append(dfs, out)
                   /\ UNCHANGED <<imp_pc, imp_error>>
    /\ UNCHANGED <<imp_file, loaded, restored>>
    /\ UNCHANGED imputeRest

\* Lines 64-67, once the loader's sequence is exhausted.
LoadMonthReturn ==
    /\ imp_pc = "loop"
    /\ ~HasNextBatch(imp_offset, Len(imp_file.trips))
    /\ IF dfs = <<>>
       THEN /\ imp_pc' = "raised"
            /\ imp_error' = "RuntimeError"
            /\ UNCHANGED loaded
       ELSE /\ imp_pc' = "loaded"
            /\ loaded' = Concat(dfs)
            /\ UNCHANGED imp_error
    /\ UNCHANGED <<imp_file, imp_offset, dfs, restored>>
    /\ UNCHANGED imputeRest

\* restore_schema(df23) (line 141).
RestoreSchema ==
    /\ imp_pc = "loaded"
    /\ restored' = restore_schema(loaded)
    /\ imp_pc' = "restored"
    /\ UNCHANGED <<imp_file, imp_offset, dfs, loaded, imp_error>>
    /\ UNCHANGED imputeRest

ImputeNext ==
    \/ LoadMonthStart
    \/ LoadMonthBatch
    \/ LoadMonthReturn
    \/ RestoreSchema

ImputeSpec == ImputeInit /\ [][ImputeNext]_vars

\* The source columns of a yellow file that the loader renames to a column.
SourceColumns(canonical) ==
    {c \in Range(YellowSchema) \cap DOMAIN cols_mapping : cols_mapping[c] = canonical}

\* C30: for a yellow-schema file, every column the loader produced is in the
\* restored frame under its source column name with the values the loader
\* kept: none of them is a NaN fill.
RestoreInvertsRenaming ==
    (imp_pc = "restored" /\ imp_file.schema = YellowSchema) =>
        \A k \in 1..Len(loaded.columns) :
            \A c \in SourceColumns(loaded.columns[k]) :
                /\ HasColumn(restored, c)
                /\ \A r \in 1..Len(loaded.rows) :
                      Cell(restored, r, c) = Amount(loaded.rows[r][k])

====
